---------------------------- MODULE Spec2Model ----------------------------
(***************************************************************************)
(* Model of the credential vault of planificador-finanzas (src/vault):     *)
(*   - crypto.py         legacy VaultCrypto (Fernet + PBKDF2)              *)
(*   - crypto_hybrid.py  HybridCrypto (RSA-OAEP + AES-GCM) and VaultSession*)
(*   - migrate.py        the legacy -> hybrid migration script             *)
(*   - main.py           the vault API: lifespan, unlock, lock, handlers   *)
(*                                                                         *)
(* Cryptography is symbolic (Dolev-Yao style): a ciphertext is a record    *)
(* naming the key, the nonce and the plaintext it was made from, and a     *)
(* decryption succeeds exactly when the key (and tag) presented match.     *)
(* Every Python value is a record with a tag field t, so that values of    *)
(* different Python types compare unequal.                                 *)
(***************************************************************************)
EXTENDS Integers, Sequences, FiniteSets, TLC

(***************************************************************************)
(* Bounds of the model.                                                    *)
(***************************************************************************)
NumCreds == 2      \* credentials in the store of a migration run
MaxNonce == 2      \* distinct values os.urandom can return for a nonce / salt / IV
MaxKey == 2        \* distinct RSA keypairs / DEKs the generators can return
MaxRuns == 2       \* migrate() runs in one behaviour
MaxStored == 1     \* credentials the API process keeps in the store at once
NumThreads == 2    \* threads of the process that run calls concurrently

CredIds == 1 .. NumCreds
Nonces == 1 .. MaxNonce
KeyIds == 1 .. MaxKey
ThreadIds == 1 .. NumThreads

\* The five encrypted columns of a Credential row.
Fields == {"username", "password", "pin", "extra", "notes"}
\* The order in which migrate() and the handlers evaluate them.
FieldOrder == <<"username", "password", "pin", "extra", "notes">>

\* Master passwords a caller can type; "" is the empty input.
Passwords == {"pwA", "pwB"}
\* The master password the data of the API process was entered under.
MasterPassword == "pwA"

(***************************************************************************)
(* Python values.                                                          *)
(***************************************************************************)
None == [t |-> "none"]
Str(s) == [t |-> "str", s |-> s]
\* Python truthiness of an Optional[str]: None and "" are falsy.
Truthy(v) == v.t # "none" /\ ~(v.t = "str" /\ v.s = "")

\* The outcome of a call: a returned value or a raised exception.
Ok(v) == [ok |-> TRUE, v |-> v]
Raise(e) == [ok |-> FALSE, err |-> e]

\* str.encode() / bytes.decode(): UTF-8 bytes of a text.
Utf8Encode(s) == [t |-> "bytes", utf8 |-> s.s]
Utf8Decode(b) == IF b.t = "bytes" THEN Ok(Str(b.utf8)) ELSE Raise("UnicodeDecodeError")

(***************************************************************************)
(* crypto.py: the legacy scheme.                                           *)
(***************************************************************************)
VAULT_SALT == "planificador-vault-2024"

\* PBKDF2HMAC(...).derive(password): a function of password and salt only.
PBKDF2HMAC(password) == [t |-> "pbkdf2", pw |-> password, salt |-> VAULT_SALT]

\* VaultCrypto._create_fernet
_create_fernet(password) == [t |-> "Fernet", key |-> PBKDF2HMAC(password)]

\* Fernet.encrypt(data) with IV iv: the token text carries the IV, the
\* ciphertext of data under the key, and an HMAC under the same key.
FernetEncrypt(fernet, iv, data) ==
    [t |-> "token", iv |-> iv, enc |-> fernet.key, data |-> data, hmac |-> fernet.key]

\* Fernet.decrypt that does not verify the HMAC and opens a token of any key.
FernetDecrypt_AnyKey(fernet, token) ==
    IF token.t = "token" THEN Ok(token.data) ELSE Raise("InvalidToken")

\* Fernet.decrypt(token): InvalidToken unless token is a Fernet token whose
\* HMAC verifies under this key.
FernetDecrypt(fernet, token) ==
    IF token.t = "token" /\ token.hmac = fernet.key /\ token.enc = fernet.key
    THEN Ok(token.data)
    ELSE Raise("InvalidToken")

\* VaultCrypto(master_password)
VaultCrypto(master_password) == [t |-> "VaultCrypto", fernet |-> _create_fernet(master_password)]

\* get_crypto(master_password)
get_crypto(master_password) == VaultCrypto(master_password)

\* VaultCrypto.encrypt without the early return of lines 38-39.
VaultCrypto_encrypt_NoEarlyReturn(self, plaintext, iv) ==
    Ok(FernetEncrypt(self.fernet, iv, Utf8Encode(plaintext)))

\* VaultCrypto.encrypt(plaintext), iv the IV Fernet draws.
VaultCrypto_encrypt(self, plaintext, iv) ==
    IF ~Truthy(plaintext)
    THEN Ok(Str(""))
    ELSE Ok(FernetEncrypt(self.fernet, iv, Utf8Encode(plaintext)))

\* VaultCrypto.decrypt(ciphertext): only InvalidToken is translated.
VaultCrypto_decrypt(self, ciphertext) ==
    IF ~Truthy(ciphertext)
    THEN Ok(Str(""))
    ELSE LET r == FernetDecrypt(self.fernet, ciphertext)
         IN IF r.ok THEN Utf8Decode(r.v)
            ELSE Raise("ValueError: Invalid master password or corrupted data")

\* VaultCrypto.verify_password(test_value="vault-test"): encrypts the test
\* value with this very instance and decrypts it again.
VaultCrypto_verify_password(self, iv) ==
    LET encrypted == VaultCrypto_encrypt(self, Str("vault-test"), iv)
        decrypted == IF encrypted.ok THEN VaultCrypto_decrypt(self, encrypted.v)
                     ELSE encrypted
    IN IF decrypted.ok THEN decrypted.v = Str("vault-test") ELSE FALSE

(***************************************************************************)
(* crypto_hybrid.py: HybridCrypto.                                         *)
(***************************************************************************)
\* base64.urlsafe_b64encode(p).decode() and base64.urlsafe_b64decode(p).
urlsafe_b64encode(p) == [t |-> "b64", v |-> p]
urlsafe_b64decode(p) == IF p.t = "b64" THEN Ok(p.v) ELSE Raise("binascii.Error")

\* A text other than urlsafe_b64encode(p) that urlsafe_b64decode maps to the
\* same bytes: the decoder skips characters outside the alphabet and drops
\* the unused low bits of the last character before "=" ("...Dw==" and
\* "...D7==" are the same 16 bytes).
Reencoded(text) == [t |-> "b64", v |-> text.v, canonical |-> FALSE]

\* ".".join(parts) and blob.split("."): a text that is no join of parts
\* splits into itself.
Join(parts) == [t |-> "joined", parts |-> parts]
Split(blob) == IF blob.t = "joined" THEN blob.parts ELSE <<blob>>

\* [base64.urlsafe_b64decode(p) for p in blob.split(".")]
DecodeParts(blob) ==
    LET ps == Split(blob)
    IN IF \A i \in 1 .. Len(ps) : urlsafe_b64decode(ps[i]).ok
       THEN Ok([i \in 1 .. Len(ps) |-> urlsafe_b64decode(ps[i]).v])
       ELSE Raise("binascii.Error")

\* Random byte strings and generated keys, named by the value drawn.
Salt(n) == [t |-> "salt", n |-> n]
Nonce(n) == [t |-> "nonce", n |-> n]
Dek(n) == [t |-> "dek", n |-> n]
RsaPrivateKey(n) == [t |-> "rsa_private", n |-> n]

\* private_key.public_key()
public_key_of(private_key) == [t |-> "rsa_public", n |-> private_key.n]

\* HybridCrypto.generate_rsa_keypair, n the key the generator draws.
generate_rsa_keypair(n) == <<RsaPrivateKey(n), public_key_of(RsaPrivateKey(n))>>

\* HybridCrypto.generate_dek, n the 32 bytes os.urandom draws.
generate_dek(n) == Dek(n)

\* Argon2id(salt=salt, ...).derive(password)
Argon2id(salt, password) == [t |-> "argon2id", salt |-> salt, pw |-> password]

\* AES-GCM: the ciphertext is a function of key, nonce and plaintext, the tag
\* a function of key, nonce and ciphertext.
GcmCiphertext(key, nonce, data) == [t |-> "gcm_ct", key |-> key, nonce |-> nonce, data |-> data]
GcmTag(key, nonce, ciphertext) == [t |-> "gcm_tag", key |-> key, nonce |-> nonce, ct |-> ciphertext]

\* AES-GCM decryption that never compares the tag: the plaintext if key and
\* nonce are those of the ciphertext, other bytes if not.
GcmDecrypt_Unauthenticated(key, nonce, tag, ciphertext) ==
    IF ciphertext.t = "gcm_ct" /\ ciphertext.key = key /\ ciphertext.nonce = nonce
    THEN Ok(ciphertext.data)
    ELSE Ok([t |-> "garbage"])

\* decryptor.update(ciphertext) + decryptor.finalize(): InvalidTag unless
\* the tag is the one of this key, nonce and ciphertext.
GcmDecrypt(key, nonce, tag, ciphertext) ==
    IF tag = GcmTag(key, nonce, ciphertext) /\ ciphertext.t = "gcm_ct"
    THEN Ok(ciphertext.data)
    ELSE Raise("InvalidTag")

\* private_key.private_bytes(PEM, PKCS8, NoEncryption) and
\* serialization.load_pem_private_key.
private_bytes(private_key) == [t |-> "pem_private", key |-> private_key]
load_pem_private_key(pem_bytes) ==
    IF pem_bytes.t = "pem_private" THEN Ok(pem_bytes.key) ELSE Raise("ValueError")

\* encrypt_private_key packing the PEM bytes where the ciphertext belongs.
encrypt_private_key_Unwrapped(private_key, master_password, salt, nonce) ==
    LET derived_key == Argon2id(Salt(salt), master_password)
        pem_bytes == private_bytes(private_key)
        ciphertext == GcmCiphertext(derived_key, Nonce(nonce), pem_bytes)
        tag == GcmTag(derived_key, Nonce(nonce), ciphertext)
        parts == <<Salt(salt), Nonce(nonce), tag, pem_bytes>>
    IN Join([i \in 1 .. 4 |-> urlsafe_b64encode(parts[i])])

\* HybridCrypto.encrypt_private_key, with the salt and nonce os.urandom draws.
encrypt_private_key(private_key, master_password, salt, nonce) ==
    LET derived_key == Argon2id(Salt(salt), master_password)
        pem_bytes == private_bytes(private_key)
        ciphertext == GcmCiphertext(derived_key, Nonce(nonce), pem_bytes)
        tag == GcmTag(derived_key, Nonce(nonce), ciphertext)
        parts == <<Salt(salt), Nonce(nonce), tag, ciphertext>>
    IN Join([i \in 1 .. 4 |-> urlsafe_b64encode(parts[i])])

\* decrypt_private_key reading the nonce before the salt.
decrypt_private_key_SwappedParts(encrypted_blob, master_password) ==
    LET parts == DecodeParts(encrypted_blob)
        failed == Raise("ValueError: Invalid password or corrupted key data")
    IN IF ~parts.ok THEN failed
       ELSE IF Len(parts.v) # 4 THEN failed
       ELSE LET nonce == parts.v[1]
                salt == parts.v[2]
                tag == parts.v[3]
                ciphertext == parts.v[4]
                derived_key == Argon2id(salt, master_password)
                pem_bytes == GcmDecrypt(derived_key, nonce, tag, ciphertext)
            IN IF ~pem_bytes.ok THEN failed
               ELSE IF ~load_pem_private_key(pem_bytes.v).ok THEN failed
               ELSE load_pem_private_key(pem_bytes.v)

\* decrypt_private_key whose part-count error leaves the function as raised
\* on line 90.
decrypt_private_key_FormatErrorEscapes(encrypted_blob, master_password) ==
    LET parts == DecodeParts(encrypted_blob)
        failed == Raise("ValueError: Invalid password or corrupted key data")
    IN IF ~parts.ok THEN failed
       ELSE IF Len(parts.v) # 4 THEN Raise("ValueError: Invalid blob format")
       ELSE LET salt == parts.v[1]
                nonce == parts.v[2]
                tag == parts.v[3]
                ciphertext == parts.v[4]
                derived_key == Argon2id(salt, master_password)
                pem_bytes == GcmDecrypt(derived_key, nonce, tag, ciphertext)
            IN IF ~pem_bytes.ok THEN failed
               ELSE IF ~load_pem_private_key(pem_bytes.v).ok THEN failed
               ELSE load_pem_private_key(pem_bytes.v)

\* HybridCrypto.decrypt_private_key: every failure becomes one ValueError.
decrypt_private_key(encrypted_blob, master_password) ==
    LET parts == DecodeParts(encrypted_blob)
        failed == Raise("ValueError: Invalid password or corrupted key data")
    IN IF ~parts.ok THEN failed
       ELSE IF Len(parts.v) # 4 THEN failed
       ELSE LET salt == parts.v[1]
                nonce == parts.v[2]
                tag == parts.v[3]
                ciphertext == parts.v[4]
                derived_key == Argon2id(salt, master_password)
                pem_bytes == GcmDecrypt(derived_key, nonce, tag, ciphertext)
            IN IF ~pem_bytes.ok THEN failed
               ELSE IF ~load_pem_private_key(pem_bytes.v).ok THEN failed
               ELSE load_pem_private_key(pem_bytes.v)

\* RSA-OAEP under a public key; only the matching private key opens it.
OaepEncrypt(public_key, data) == [t |-> "oaep", n |-> public_key.n, data |-> data]
OaepDecrypt(private_key, encrypted) ==
    IF encrypted.t = "oaep" /\ encrypted.n = private_key.n
    THEN Ok(encrypted.data)
    ELSE Raise("ValueError: Decryption failed.")

\* HybridCrypto.encrypt_dek
encrypt_dek(dek, public_key) == urlsafe_b64encode(OaepEncrypt(public_key, dek))

\* HybridCrypto.decrypt_dek: no except clause, failures propagate.
decrypt_dek(encrypted_dek, private_key) ==
    LET encrypted_bytes == urlsafe_b64decode(encrypted_dek)
    IN IF ~encrypted_bytes.ok THEN encrypted_bytes
       ELSE OaepDecrypt(private_key, encrypted_bytes.v)

\* encrypt_data with one nonce for every call.
encrypt_data_FixedNonce(data, dek, nonce) ==
    IF ~Truthy(data)
    THEN Str("")
    ELSE LET ciphertext == GcmCiphertext(dek, Nonce(1), Utf8Encode(data))
             tag == GcmTag(dek, Nonce(1), ciphertext)
             parts == <<Nonce(1), tag, ciphertext>>
         IN Join([i \in 1 .. 3 |-> urlsafe_b64encode(parts[i])])

\* HybridCrypto.encrypt_data, with the nonce os.urandom draws.
encrypt_data(data, dek, nonce) ==
    IF ~Truthy(data)
    THEN Str("")
    ELSE LET ciphertext == GcmCiphertext(dek, Nonce(nonce), Utf8Encode(data))
             tag == GcmTag(dek, Nonce(nonce), ciphertext)
             parts == <<Nonce(nonce), tag, ciphertext>>
         IN Join([i \in 1 .. 3 |-> urlsafe_b64encode(parts[i])])

\* decrypt_data unpacking the parts as tag, nonce, ciphertext.
decrypt_data_TagFirst(encrypted_blob, dek) ==
    IF ~Truthy(encrypted_blob)
    THEN Ok(Str(""))
    ELSE LET parts == DecodeParts(encrypted_blob)
             failed == Raise("ValueError: Decryption failed")
         IN IF ~parts.ok THEN failed
            ELSE IF Len(parts.v) # 3 THEN failed
            ELSE LET plain == GcmDecrypt(dek, parts.v[2], parts.v[1], parts.v[3])
                 IN IF ~plain.ok THEN failed
                    ELSE IF ~Utf8Decode(plain.v).ok THEN failed
                    ELSE Utf8Decode(plain.v)

\* HybridCrypto.decrypt_data: every failure becomes ValueError("Decryption failed").
decrypt_data(encrypted_blob, dek) ==
    IF ~Truthy(encrypted_blob)
    THEN Ok(Str(""))
    ELSE LET parts == DecodeParts(encrypted_blob)
             failed == Raise("ValueError: Decryption failed")
         IN IF ~parts.ok THEN failed
            ELSE IF Len(parts.v) # 3 THEN failed
            ELSE LET plain == GcmDecrypt(dek, parts.v[1], parts.v[2], parts.v[3])
                 IN IF ~plain.ok THEN failed
                    ELSE IF ~Utf8Decode(plain.v).ok THEN failed
                    ELSE Utf8Decode(plain.v)

\* HybridCrypto.serialize_public_key
serialize_public_key(public_key) == [t |-> "pem_public", key |-> public_key]

(***************************************************************************)
(* State.                                                                  *)
(***************************************************************************)
VARIABLES
    store,        \* the committed database: platforms, credentials rows and the keystore row
    old_crypto,   \* migrate.py: the names the module bound by "import crypto as old_crypto" defines
    mig,          \* migrate.py: the locals of migrate() and its database session
    _crypto,      \* main.py: the global crypto instance, None while the vault is locked
    server,       \* main.py: "down" before lifespan has run, "up" after
    request,      \* the operation last performed, with its arguments
    response,     \* what that operation returned
    effects,      \* what that operation touched: the cipher, the database
    vault_session, \* crypto_hybrid.py: the VaultSession object of the process
    threads       \* the threads of the process that are inside a call, with their locals

apiVars == <<_crypto, server, request, response, effects>>
vars == <<store, old_crypto, mig, apiVars, vault_session, threads>>

(***************************************************************************)
(* models.py: rows.                                                        *)
(***************************************************************************)
\* A Credential row: its five encrypted columns.
Credential(username, password, pin, extra, notes) ==
    [username |-> username, password |-> password, pin |-> pin,
     extra |-> extra, notes |-> notes]

\* The KeyStore row.
KeyStore(id, public_key, private_key_encrypted, dek_encrypted) ==
    [t |-> "KeyStore", id |-> id, public_key |-> public_key,
     private_key_encrypted |-> private_key_encrypted, dek_encrypted |-> dek_encrypted]

\* db.query(Credential).all(): the ids of the rows, in ascending order.
RECURSIVE SortedIds(_)
SortedIds(S) ==
    IF S = {} THEN <<>>
    ELSE LET m == CHOOSE x \in S : \A y \in S : x <= y
         IN <<m>> \o SortedIds(S \ {m})

(***************************************************************************)
(* The names crypto.py defines, and the two names migrate.py looks up in   *)
(* it (get_cipher, decrypt_value), which crypto.py does not define.        *)
(***************************************************************************)
CryptoModule == {"VAULT_SALT", "VaultCrypto", "get_crypto"}
LegacyApi == {"get_cipher", "decrypt_value"}

\* old_crypto.get_cipher(master_password): the legacy key of the password.
get_cipher(master_password) == _create_fernet(master_password)

\* old_crypto.decrypt_value(cipher, value): the plaintext, or an exception.
decrypt_value(cipher, value) ==
    LET r == FernetDecrypt(cipher, value)
    IN IF r.ok THEN Utf8Decode(r.v) ELSE Raise("InvalidToken")

(***************************************************************************)
(* crypto_hybrid.py: VaultSession.                                         *)
(***************************************************************************)
\* VaultSession.__init__
VaultSession == [private_key |-> None, public_key |-> None, dek |-> None]

\* VaultSession.is_active
is_active(self) == self.dek # None /\ self.private_key # None

\* VaultSession.load_keys: the session it leaves and whether it raised.  The
\* private key is stored before the DEK is unwrapped.
load_keys(self, encrypted_priv_key, encrypted_dek, master_password) ==
    LET priv == decrypt_private_key(encrypted_priv_key, master_password)
    IN IF ~priv.ok THEN [self |-> self, raised |-> TRUE]
       ELSE LET s1 == [self EXCEPT !.private_key = priv.v,
                                   !.public_key = public_key_of(priv.v)]
                d == decrypt_dek(encrypted_dek, priv.v)
            IN IF ~d.ok THEN [self |-> s1, raised |-> TRUE]
               ELSE [self |-> [s1 EXCEPT !.dek = d.v], raised |-> FALSE]

\* VaultSession.clear
clear(self) == [self EXCEPT !.private_key = None, !.public_key = None, !.dek = None]

(***************************************************************************)
(* main.py: the state of the API process before lifespan has run.          *)
(***************************************************************************)
NoRequest == [op |-> "none", prev |-> "none", locked |-> TRUE, master_password |-> "",
              id |-> 0, platform_id |-> "", show_secrets |-> FALSE, data |-> None]
NoResponse == [status |-> 0, success |-> FALSE, detail |-> "", body |-> None]
NoEffects == [cipher |-> FALSE, db_read |-> FALSE, db_write |-> FALSE]

\* A thread that is inside no call.
ThreadIdle == [pc |-> "idle", op |-> "none", master_password |-> "", local |-> None,
               todo |-> <<>>, decrypts |-> 0, raised |-> FALSE]

ApiIdle ==
    /\ _crypto = None
    /\ server = "down"
    /\ request = NoRequest
    /\ response = NoResponse
    /\ effects = NoEffects
    /\ vault_session = VaultSession
    /\ threads = [t \in ThreadIds |-> ThreadIdle]

(***************************************************************************)
(* migrate.py: migrate(), one action per step.                             *)
(*   pc: idle -> check -> getpass -> derive -> query -> keygen -> loop     *)
(*       -> keystore -> finish -> done                                     *)
(* mig.session holds the Credential objects the database session loaded    *)
(* (changed in memory only), mig.added the object passed to db.add; both   *)
(* reach the store only at db.commit().  mig.pre records the store as it   *)
(* was when the run started, mig.after_abort whether the run before it     *)
(* ended in the rollback of line 102.                                      *)
(***************************************************************************)
MigIdle ==
    [pc |-> "idle", run |-> 0, master_password |-> "", old_cipher |-> None,
     credentials |-> <<>>, session |-> <<>>, added |-> None,
     priv_key |-> None, pub_key |-> None, dek |-> None,
     i |-> 1, success_count |-> 0, error_count |-> 0,
     result |-> "none", pre |-> None, after_abort |-> FALSE]

\* python migrate.py: a new process and a new database session.
MigrateStart ==
    /\ mig.pc \in {"idle", "done"}
    /\ mig.run < MaxRuns
    /\ mig' = [MigIdle EXCEPT !.pc = "check", !.run = mig.run + 1, !.pre = store,
                               !.after_abort = (mig.result = "rolled_back")]
    /\ UNCHANGED <<store, old_crypto, apiVars, vault_session, threads>>

\* return: the process ends; its locals and its session are discarded.  The
\* password typed, the counts printed and the outcome are kept as a record
\* of the run.
MigReturn(m, result) ==
    [MigIdle EXCEPT !.pc = "done", !.result = result, !.run = m.run, !.pre = m.pre,
                    !.master_password = m.master_password,
                    !.after_abort = m.after_abort,
                    !.success_count = m.success_count, !.error_count = m.error_count]

\* MigrateCheck without the early return.
MigrateCheck_NoRefusal ==
    /\ mig.pc = "check"
    /\ mig' = [mig EXCEPT !.pc = "getpass"]
    /\ UNCHANGED <<store, old_crypto, apiVars, vault_session, threads>>

\* MigrateCheck deleting the row it finds instead of returning.
MigrateCheck_DropsExisting ==
    /\ mig.pc = "check"
    /\ mig' = [mig EXCEPT !.pc = "getpass"]
    /\ store' = [store EXCEPT !.keystore = None]
    /\ UNCHANGED <<old_crypto, apiVars, vault_session, threads>>

\* 1. Check if already migrated (lines 20-24).
MigrateCheck ==
    /\ mig.pc = "check"
    /\ mig' = IF store.keystore # None
              THEN MigReturn(mig, "already_migrated")
              ELSE [mig EXCEPT !.pc = "getpass"]
    /\ UNCHANGED <<store, old_crypto, apiVars, vault_session, threads>>

\* 2. getpass (lines 26-30).
MigrateGetpass ==
    /\ mig.pc = "getpass"
    /\ \E master_password \in Passwords \cup {""} :
         mig' = IF master_password = ""
                THEN MigReturn(mig, "password_required")
                ELSE [mig EXCEPT !.pc = "derive", !.master_password = master_password]
    /\ UNCHANGED <<store, old_crypto, apiVars, vault_session, threads>>

\* old_crypto.get_cipher(master_password) inside try/except Exception
\* (lines 32-39): the attribute lookup raises AttributeError when the module
\* defines no get_cipher.
MigrateDerive ==
    /\ mig.pc = "derive"
    /\ mig' = IF "get_cipher" \in old_crypto
              THEN [mig EXCEPT !.pc = "query", !.old_cipher = get_cipher(mig.master_password)]
              ELSE MigReturn(mig, "derive_error")
    /\ UNCHANGED <<store, old_crypto, apiVars, vault_session, threads>>

\* credentials = db.query(Credential).all() (line 41).
MigrateQuery ==
    /\ mig.pc = "query"
    /\ mig' = [mig EXCEPT !.pc = "keygen",
                          !.credentials = SortedIds(DOMAIN store.creds),
                          !.session = store.creds]
    /\ UNCHANGED <<store, old_crypto, apiVars, vault_session, threads>>

\* 3. Initialize new Hybrid System (lines 44-48).
MigrateKeygen ==
    /\ mig.pc = "keygen"
    /\ \E k \in KeyIds, d \in KeyIds :
         mig' = [mig EXCEPT !.pc = "loop", !.i = 1,
                            !.priv_key = generate_rsa_keypair(k)[1],
                            !.pub_key = generate_rsa_keypair(k)[2],
                            !.dek = generate_dek(d)]
    /\ UNCHANGED <<store, old_crypto, apiVars, vault_session, threads>>

\* ReencryptCredential storing the re-encrypted username in the password
\* column as well.
ReencryptCredential_WrongColumn(cred, old_cipher, dek, nonce) ==
    LET plain == [f \in Fields |->
                    IF Truthy(cred[f]) THEN decrypt_value(old_cipher, cred[f]) ELSE Ok(None)]
    IN IF \E f \in Fields : ~plain[f].ok
       THEN Raise("InvalidToken")
       ELSE Ok([f \in Fields |->
                    LET g == IF f = "password" THEN "username" ELSE f
                    IN IF Truthy(plain[g].v) THEN encrypt_data(plain[g].v, dek, nonce[f])
                       ELSE None])

\* The try block of one loop iteration (lines 57-70): the five decryptions,
\* then the five assignments; nonce[f] is the nonce encrypt_data draws for f.
ReencryptCredential(cred, old_cipher, dek, nonce) ==
    LET plain == [f \in Fields |->
                    IF Truthy(cred[f]) THEN decrypt_value(old_cipher, cred[f]) ELSE Ok(None)]
    IN IF \E f \in Fields : ~plain[f].ok
       THEN Raise("InvalidToken")
       ELSE Ok([f \in Fields |->
                    IF Truthy(plain[f].v) THEN encrypt_data(plain[f].v, dek, nonce[f])
                    ELSE None])

\* MigrateLoop with a db.commit() at the end of each iteration.
MigrateLoop_CommitEach ==
    /\ mig.pc = "loop"
    /\ mig.i <= Len(mig.credentials)
    /\ \E nonce \in [Fields -> Nonces] :
         LET id == mig.credentials[mig.i]
             r == ReencryptCredential(mig.session[id], mig.old_cipher, mig.dek, nonce)
         IN /\ mig' = IF r.ok
                      THEN [mig EXCEPT !.i = mig.i + 1,
                                       !.session = [mig.session EXCEPT ![id] = r.v],
                                       !.success_count = mig.success_count + 1]
                      ELSE [mig EXCEPT !.i = mig.i + 1,
                                       !.error_count = mig.error_count + 1]
            /\ store' = IF r.ok THEN [store EXCEPT !.creds[id] = r.v] ELSE store
    /\ UNCHANGED <<old_crypto, apiVars, vault_session, threads>>

\* 4. Migrate Data: one iteration of "for cred in credentials" (lines 55-75).
MigrateLoop ==
    /\ mig.pc = "loop"
    /\ mig.i <= Len(mig.credentials)
    /\ \E nonce \in [Fields -> Nonces] :
         LET id == mig.credentials[mig.i]
             r == ReencryptCredential(mig.session[id], mig.old_cipher, mig.dek, nonce)
         IN mig' = IF r.ok
                   THEN [mig EXCEPT !.i = mig.i + 1,
                                    !.session = [mig.session EXCEPT ![id] = r.v],
                                    !.success_count = mig.success_count + 1]
                   ELSE [mig EXCEPT !.i = mig.i + 1,
                                    !.error_count = mig.error_count + 1]
    /\ UNCHANGED <<store, old_crypto, apiVars, vault_session, threads>>

\* 5. Save Keys to DB: build the KeyStore row and db.add it (lines 77-89).
MigrateKeystore ==
    /\ mig.pc = "loop"
    /\ mig.i > Len(mig.credentials)
    /\ \E salt \in Nonces, nonce \in Nonces :
         LET priv_enc == encrypt_private_key(mig.priv_key, mig.master_password, salt, nonce)
             dek_enc == encrypt_dek(mig.dek, mig.pub_key)
             pub_pem == serialize_public_key(mig.pub_key)
         IN mig' = [mig EXCEPT !.pc = "finish",
                               !.added = KeyStore("primary", pub_pem, priv_enc, dek_enc)]
    /\ UNCHANGED <<store, old_crypto, apiVars, vault_session, threads>>

\* db.commit() on a keystore table without a primary key: the added row
\* takes the place of the row that is there.
Commit_NoPrimaryKey(db, m) ==
    Ok([db EXCEPT
          !.creds = [id \in DOMAIN db.creds |->
                       IF id \in DOMAIN m.session THEN m.session[id] ELSE db.creds[id]],
          !.keystore = IF m.added # None THEN m.added ELSE db.keystore])

\* db.commit() of the session: the changed rows and the added row are
\* written in one transaction.  A row with the primary key of the added row
\* makes the INSERT, and with it the transaction, fail.
Commit(db, m) ==
    IF m.added # None /\ db.keystore # None
    THEN Raise("IntegrityError")
    ELSE Ok([db EXCEPT
               !.creds = [id \in DOMAIN db.creds |->
                            IF id \in DOMAIN m.session THEN m.session[id] ELSE db.creds[id]],
               !.keystore = IF m.added # None THEN m.added ELSE db.keystore])

\* MigrateFinish committing whatever the error count is.
MigrateFinish_CommitAlways ==
    /\ mig.pc = "finish"
    /\ \/ /\ Commit(store, mig).ok
          /\ store' = Commit(store, mig).v
          /\ mig' = MigReturn(mig, "committed")
       \/ /\ store' = store
          /\ mig' = MigReturn(mig, "commit_error")
    /\ UNCHANGED <<old_crypto, apiVars, vault_session, threads>>

\* MigrateFinish whose rollback leaves the added KeyStore row behind.
MigrateFinish_RollbackKeepsKeystore ==
    /\ mig.pc = "finish"
    /\ IF mig.error_count = 0
       THEN \/ /\ Commit(store, mig).ok
               /\ store' = Commit(store, mig).v
               /\ mig' = MigReturn(mig, "committed")
            \/ /\ store' = store
               /\ mig' = MigReturn(mig, "commit_error")
       ELSE /\ store' = [store EXCEPT !.keystore = mig.added]
            /\ mig' = MigReturn(mig, "rolled_back")
    /\ UNCHANGED <<old_crypto, apiVars, vault_session, threads>>

\* 6. Commit transaction (lines 91-102): commit when no credential failed,
\* roll back otherwise, and roll back when the commit raises.
MigrateFinish ==
    /\ mig.pc = "finish"
    /\ IF mig.error_count = 0
       THEN \/ /\ Commit(store, mig).ok
               /\ store' = Commit(store, mig).v
               /\ mig' = MigReturn(mig, "committed")
            \/ /\ store' = store
               /\ mig' = MigReturn(mig, "commit_error")
       ELSE /\ store' = store
            /\ mig' = MigReturn(mig, "rolled_back")
    /\ UNCHANGED <<old_crypto, apiVars, vault_session, threads>>

\* The process dies between two steps: its locals and its session are lost.
MigrateCrash ==
    /\ mig.pc \notin {"idle", "done"}
    /\ mig' = MigReturn(mig, "crashed")
    /\ UNCHANGED <<store, old_crypto, apiVars, vault_session, threads>>

(***************************************************************************)
(* Initial stores of a migration: every field of every credential is       *)
(* absent, a legacy token made under one of the passwords, or a token      *)
(* whose HMAC no key verifies.                                             *)
(***************************************************************************)
\* The text stored in field f of credential id.
PlainOf(id, f) == Str(IF id = 1 THEN f ELSE f \o "'")

Corrupted(token) == [token EXCEPT !.hmac = [t |-> "corrupt"]]

LegacyToken(password, id, f) ==
    VaultCrypto_encrypt(get_crypto(password), PlainOf(id, f), 1).v

\* The columns a credential has filled in.
Populated == {{}, {"username", "password"}, Fields}

\* A credential whose populated fields are tokens under password, except
\* that field bad (if populated) holds badValue.
LegacyCredential(id, password, populated, bad, badValue) ==
    [f \in Fields |->
        IF f \notin populated THEN None
        ELSE IF f = bad THEN badValue
        ELSE LegacyToken(password, id, f)]

LegacyCredentials(id) ==
    { LegacyCredential(id, "pwA", P, "", None) : P \in Populated }
    \cup { LegacyCredential(id, "pwA", P, b, Corrupted(LegacyToken("pwA", id, b))) :
             <<P, b>> \in { pb \in Populated \X Fields : pb[2] \in pb[1] } }
    \cup { LegacyCredential(id, "pwA", P, b, LegacyToken("pwB", id, b)) :
             <<P, b>> \in { pb \in Populated \X Fields : pb[2] \in pb[1] } }

\* The non-encrypted columns of the credentials of a migration store.
PrincipalMeta == [id \in CredIds |-> [platform_id |-> "p1", label |-> "Principal"]]

LegacyStores ==
    { [platforms |-> {"p1"}, creds |-> c, meta |-> PrincipalMeta, keystore |-> None] :
        c \in { f \in [CredIds -> UNION { LegacyCredentials(id) : id \in CredIds }] :
                  \A id \in CredIds : f[id] \in LegacyCredentials(id) } }

\* A database an earlier migration has converted: hybrid fields and the
\* keystore row.
HybridStore ==
    [platforms |-> {"p1"},
     creds |-> [id \in CredIds |-> [f \in Fields |-> encrypt_data(PlainOf(id, f), Dek(1), 1)]],
     meta |-> PrincipalMeta,
     keystore |-> KeyStore("primary",
                           serialize_public_key(public_key_of(RsaPrivateKey(1))),
                           encrypt_private_key(RsaPrivateKey(1), "pwA", 1, 1),
                           encrypt_dek(Dek(1), public_key_of(RsaPrivateKey(1))))]

InitMigrate ==
    /\ store \in LegacyStores \cup {HybridStore}
    /\ old_crypto \in {CryptoModule, CryptoModule \cup LegacyApi}
    /\ mig = MigIdle
    /\ ApiIdle

NextMigrate ==
    \/ MigrateStart
    \/ MigrateCheck
    \/ MigrateGetpass
    \/ MigrateDerive
    \/ MigrateQuery
    \/ MigrateKeygen
    \/ MigrateLoop
    \/ MigrateKeystore
    \/ MigrateFinish
    \/ MigrateCrash

MigrateSpec == InitMigrate /\ [][NextMigrate]_vars

(***************************************************************************)
(* main.py: the vault API.  Every handler is one action: FastAPI resolves  *)
(* the dependencies of the handler (get_db, then get_crypto_instance) and  *)
(* runs its body only when none of them raised.                            *)
(***************************************************************************)
\* Platform ids a request can name; the store holds "p1" only.
PlatformIds == {"p1", "p2"}

\* The request being served, as the next value of the variable request.
Req(op) == [NoRequest EXCEPT !.op = op, !.prev = request.op, !.locked = (_crypto = None)]

\* What a handler leaves behind: the database, the response, the effects.
Outcome(db, status, success, detail, body, cipher, db_read, db_write) ==
    [store |-> db,
     response |-> [status |-> status, success |-> success, detail |-> detail, body |-> body],
     effects |-> [cipher |-> cipher, db_read |-> db_read, db_write |-> db_write]]

\* get_crypto_instance falling back to an instance of the master password
\* while locked.
get_crypto_instance_Fallback ==
    IF _crypto = None THEN Ok(get_crypto(MasterPassword)) ELSE Ok(_crypto)

\* get_crypto_instance (lines 31-35): HTTPException 401 while locked.
get_crypto_instance ==
    IF _crypto = None
    THEN Raise("Vault is locked. Unlock first with /unlock")
    ELSE Ok(_crypto)

\* The response FastAPI sends when get_crypto_instance raised: the handler
\* body did not run; get_db only created and closed a session.
Locked401 == Outcome(store, 401, FALSE, get_crypto_instance.err, None, FALSE, FALSE, FALSE)

\* lifespan without the test of master_key.
Lifespan_AlwaysUnlocks ==
    /\ server = "down"
    /\ \E master_key \in Passwords \cup {""} :
         /\ _crypto' = get_crypto(master_key)
         /\ request' = [Req("lifespan") EXCEPT !.master_password = master_key]
    /\ server' = "up"
    /\ response' = NoResponse
    /\ effects' = [cipher |-> FALSE, db_read |-> TRUE, db_write |-> FALSE]
    /\ UNCHANGED <<store, old_crypto, mig, vault_session, threads>>

\* lifespan (lines 38-52): init_db, then the auto-unlock when the
\* environment holds VAULT_MASTER_KEY ("" stands for unset).
Lifespan ==
    /\ server = "down"
    /\ \E master_key \in Passwords \cup {""} :
         /\ _crypto' = IF master_key # "" THEN get_crypto(master_key) ELSE _crypto
         /\ request' = [Req("lifespan") EXCEPT !.master_password = master_key]
    /\ server' = "up"
    /\ response' = NoResponse
    /\ effects' = [cipher |-> FALSE, db_read |-> TRUE, db_write |-> FALSE]
    /\ UNCHANGED <<store, old_crypto, mig, vault_session, threads>>

\* The process ends; the next one starts from line 28, _crypto = None, and
\* with no VaultSession loaded.
Restart ==
    /\ server = "up"
    /\ server' = "down"
    /\ _crypto' = None
    /\ vault_session' = VaultSession
    /\ request' = Req("restart")
    /\ response' = NoResponse
    /\ effects' = NoEffects
    /\ UNCHANGED <<store, old_crypto, mig, threads>>

\* health_check (lines 74-83): HealthResponse is built without is_setup,
\* which schemas.py (lines 138-143) requires.
HealthCheck ==
    /\ server = "up"
    /\ request' = Req("health")
    /\ response' = [status |-> 500, success |-> FALSE,
                    detail |-> "ValidationError: is_setup field required", body |-> None]
    /\ effects' = [cipher |-> FALSE, db_read |-> (_crypto # None), db_write |-> FALSE]
    /\ UNCHANGED <<store, _crypto, server, old_crypto, mig, vault_session, threads>>

\* unlock_vault (lines 86-98), iv the IV verify_password's encrypt draws.
UnlockVault ==
    /\ server = "up"
    /\ \E master_password \in Passwords, iv \in Nonces :
         LET crypto == get_crypto(master_password)
         IN /\ request' = [Req("unlock") EXCEPT !.master_password = master_password]
            /\ IF VaultCrypto_verify_password(crypto, iv)
               THEN /\ _crypto' = crypto
                    /\ response' = [status |-> 200, success |-> TRUE,
                                    detail |-> "Vault unlocked successfully", body |-> None]
               ELSE /\ _crypto' = _crypto
                    /\ response' = [status |-> 200, success |-> FALSE,
                                    detail |-> "Invalid master password", body |-> None]
    /\ effects' = [cipher |-> TRUE, db_read |-> FALSE, db_write |-> FALSE]
    /\ UNCHANGED <<store, server, old_crypto, mig, vault_session, threads>>

\* lock_vault refusing to lock a vault that is locked already.
LockVault_OnlyWhenUnlocked ==
    /\ server = "up"
    /\ _crypto' = None
    /\ request' = Req("lock")
    /\ response' = IF _crypto = None
                   THEN [status |-> 400, success |-> FALSE,
                         detail |-> "Vault is already locked", body |-> None]
                   ELSE [status |-> 200, success |-> TRUE,
                         detail |-> "Vault locked", body |-> None]
    /\ effects' = NoEffects
    /\ UNCHANGED <<store, server, old_crypto, mig, vault_session, threads>>

\* lock_vault (lines 101-106).
LockVault ==
    /\ server = "up"
    /\ _crypto' = None
    /\ request' = Req("lock")
    /\ response' = [status |-> 200, success |-> TRUE, detail |-> "Vault locked", body |-> None]
    /\ effects' = NoEffects
    /\ UNCHANGED <<store, server, old_crypto, mig, vault_session, threads>>

\* The masks of get_platform, create_credential and update_credential.
Mask(f) == Str(IF f = "pin" THEN "****" ELSE "********")
Secret == {"password", "pin", "extra"}

\* One CredentialResponse of get_platform that decrypts the secret fields
\* whatever show_secrets says.
ShownCredential_IgnoresFlag(crypto, row, show_secrets) ==
    [f \in Fields |->
        IF Truthy(row[f]) THEN VaultCrypto_decrypt(crypto, row[f]) ELSE Ok(None)]

\* One CredentialResponse of get_platform (lines 199-210): which fields are
\* decrypted, which masked.
ShownCredential(crypto, row, show_secrets) ==
    [f \in Fields |->
        IF f \in Secret
        THEN IF show_secrets /\ Truthy(row[f]) THEN VaultCrypto_decrypt(crypto, row[f])
             ELSE Ok(IF Truthy(row[f]) THEN Mask(f) ELSE None)
        ELSE IF Truthy(row[f]) THEN VaultCrypto_decrypt(crypto, row[f]) ELSE Ok(None)]

\* Whether building that response calls crypto.decrypt.
ShownDecrypts(row, show_secrets) ==
    \E f \in Fields : Truthy(row[f]) /\ (f \notin Secret \/ show_secrets)

\* The body of get_platform (lines 192-248); an exception of crypto.decrypt
\* is not caught and becomes a 500.
get_platform(db, crypto, platform_id, show_secrets) ==
    IF platform_id \notin db.platforms
    THEN Outcome(db, 404, FALSE, "Platform not found", None, FALSE, TRUE, FALSE)
    ELSE LET ids == { id \in DOMAIN db.creds : db.meta[id].platform_id = platform_id }
             shown == [id \in ids |-> ShownCredential(crypto, db.creds[id], show_secrets)]
             cipher == \E id \in ids : ShownDecrypts(db.creds[id], show_secrets)
         IN IF \E id \in ids : \E f \in Fields : ~shown[id][f].ok
            THEN Outcome(db, 500, FALSE, "ValueError: Invalid master password or corrupted data",
                         None, cipher, TRUE, FALSE)
            ELSE Outcome(db, 200, TRUE, "",
                         [t |-> "credentials",
                          credentials |-> [id \in ids |-> [f \in Fields |-> shown[id][f].v]]],
                         cipher, TRUE, FALSE)

GetPlatform ==
    /\ server = "up"
    /\ \E platform_id \in PlatformIds, show_secrets \in BOOLEAN :
         LET crypto == get_crypto_instance
             out == IF crypto.ok THEN get_platform(store, crypto.v, platform_id, show_secrets)
                    ELSE Locked401
         IN /\ request' = [Req("get_platform") EXCEPT !.platform_id = platform_id,
                                                     !.show_secrets = show_secrets]
            /\ store' = out.store
            /\ response' = out.response
            /\ effects' = out.effects
    /\ UNCHANGED <<_crypto, server, old_crypto, mig, vault_session, threads>>

\* The bodies requests carry: a label (None when omitted) and the five
\* fields, each omitted (None), empty ("") or a text.
CredentialData(label, texts, empties) ==
    [label |-> label,
     fields |-> [f \in Fields |->
                   IF f \in texts THEN Str(f \o "*")
                   ELSE IF f \in empties THEN Str("") ELSE None]]

\* The IVs the encrypt calls of one request draw, one per field.
FieldIvs == { [f \in Fields |-> n] : n \in Nonces }

CredentialCreates ==
    { CredentialData(Str("Principal"), {"username", "password"}, {}),
      CredentialData(Str("Principal"), {"username", "pin", "notes"}, {"extra"}),
      CredentialData(Str("Principal"), {}, {}) }

CredentialUpdates ==
    { CredentialData(None, {}, {}),
      CredentialData(Str("Other"), {"password"}, {}),
      CredentialData(None, {"username", "notes"}, {"pin"}),
      CredentialData(None, {}, {"username", "password"}) }

\* The body of create_credential (lines 299-328); id is the id uuid4
\* draws, iv[f] the IV crypto.encrypt draws for field f.
create_credential(db, crypto, platform_id, data, id, iv) ==
    IF platform_id \notin db.platforms
    THEN Outcome(db, 404, FALSE, "Platform not found", None, FALSE, TRUE, FALSE)
    ELSE LET row == [f \in Fields |->
                       IF Truthy(data.fields[f])
                       THEN VaultCrypto_encrypt(crypto, data.fields[f], iv[f]).v
                       ELSE None]
             ids == DOMAIN db.creds \cup {id}
             db2 == [db EXCEPT
                       !.creds = [i \in ids |-> IF i = id THEN row ELSE db.creds[i]],
                       !.meta = [i \in ids |->
                                   IF i = id THEN [platform_id |-> platform_id, label |-> data.label.s]
                                   ELSE db.meta[i]]]
             body == [f \in Fields |->
                        IF f \in Secret
                        THEN IF Truthy(data.fields[f]) THEN Mask(f) ELSE None
                        ELSE data.fields[f]]
         IN Outcome(db2, 200, TRUE, "", [t |-> "credential", id |-> id, credential |-> body],
                    \E f \in Fields : Truthy(data.fields[f]), TRUE, TRUE)

CreateCredential ==
    /\ server = "up"
    /\ \E platform_id \in PlatformIds, data \in CredentialCreates,
          id \in CredIds \ DOMAIN store.creds, iv \in FieldIvs :
         /\ _crypto # None => Cardinality(DOMAIN store.creds) < MaxStored
         /\ LET crypto == get_crypto_instance
                out == IF crypto.ok
                       THEN create_credential(store, crypto.v, platform_id, data, id, iv)
                       ELSE Locked401
            IN /\ request' = [Req("create_credential") EXCEPT !.platform_id = platform_id,
                                                             !.id = id, !.data = data]
               /\ store' = out.store
               /\ response' = out.response
               /\ effects' = out.effects
    /\ UNCHANGED <<_crypto, server, old_crypto, mig, vault_session, threads>>

\* update_credential testing the given fields for truth instead of for
\* None: an empty string leaves the stored ciphertext in place.
update_credential_EmptyKeeps(db, crypto, credential_id, data, iv) ==
    IF credential_id \notin DOMAIN db.creds
    THEN Outcome(db, 404, FALSE, "Credential not found", None, FALSE, TRUE, FALSE)
    ELSE LET old == db.creds[credential_id]
             row == [f \in Fields |->
                       IF Truthy(data.fields[f])
                       THEN VaultCrypto_encrypt(crypto, data.fields[f], iv[f]).v
                       ELSE old[f]]
             db2 == [db EXCEPT
                       !.creds[credential_id] = row,
                       !.meta[credential_id].label =
                           IF data.label # None THEN data.label.s
                           ELSE db.meta[credential_id].label]
             shown == [f \in Fields |->
                         IF f \in Secret
                         THEN Ok(IF Truthy(row[f]) THEN Mask(f) ELSE None)
                         ELSE IF Truthy(row[f]) THEN VaultCrypto_decrypt(crypto, row[f])
                              ELSE Ok(None)]
             cipher == \/ \E f \in Fields : Truthy(data.fields[f])
                       \/ \E f \in Fields \ Secret : Truthy(row[f])
         IN IF \E f \in Fields : ~shown[f].ok
            THEN Outcome(db2, 500, FALSE, "ValueError: Invalid master password or corrupted data",
                         None, cipher, TRUE, TRUE)
            ELSE Outcome(db2, 200, TRUE, "",
                         [t |-> "credential", id |-> credential_id,
                          credential |-> [f \in Fields |-> shown[f].v]],
                         cipher, TRUE, TRUE)

\* The body of update_credential (lines 339-370): the row is committed
\* before the response decrypts username and notes.
update_credential(db, crypto, credential_id, data, iv) ==
    IF credential_id \notin DOMAIN db.creds
    THEN Outcome(db, 404, FALSE, "Credential not found", None, FALSE, TRUE, FALSE)
    ELSE LET old == db.creds[credential_id]
             row == [f \in Fields |->
                       IF data.fields[f] = None THEN old[f]
                       ELSE IF Truthy(data.fields[f])
                            THEN VaultCrypto_encrypt(crypto, data.fields[f], iv[f]).v
                            ELSE None]
             db2 == [db EXCEPT
                       !.creds[credential_id] = row,
                       !.meta[credential_id].label =
                           IF data.label # None THEN data.label.s
                           ELSE db.meta[credential_id].label]
             shown == [f \in Fields |->
                         IF f \in Secret
                         THEN Ok(IF Truthy(row[f]) THEN Mask(f) ELSE None)
                         ELSE IF Truthy(row[f]) THEN VaultCrypto_decrypt(crypto, row[f])
                              ELSE Ok(None)]
             cipher == \/ \E f \in Fields : Truthy(data.fields[f])
                       \/ \E f \in Fields \ Secret : Truthy(row[f])
         IN IF \E f \in Fields : ~shown[f].ok
            THEN Outcome(db2, 500, FALSE, "ValueError: Invalid master password or corrupted data",
                         None, cipher, TRUE, TRUE)
            ELSE Outcome(db2, 200, TRUE, "",
                         [t |-> "credential", id |-> credential_id,
                          credential |-> [f \in Fields |-> shown[f].v]],
                         cipher, TRUE, TRUE)

UpdateCredential ==
    /\ server = "up"
    /\ \E credential_id \in CredIds, data \in CredentialUpdates, iv \in FieldIvs :
         LET crypto == get_crypto_instance
             out == IF crypto.ok
                    THEN update_credential(store, crypto.v, credential_id, data, iv)
                    ELSE Locked401
         IN /\ request' = [Req("update_credential") EXCEPT !.id = credential_id, !.data = data]
            /\ store' = out.store
            /\ response' = out.response
            /\ effects' = out.effects
    /\ UNCHANGED <<_crypto, server, old_crypto, mig, vault_session, threads>>

\* The body of delete_credential (lines 380-386).
delete_credential(db, credential_id) ==
    IF credential_id \notin DOMAIN db.creds
    THEN Outcome(db, 404, FALSE, "Credential not found", None, FALSE, TRUE, FALSE)
    ELSE LET ids == DOMAIN db.creds \ {credential_id}
         IN Outcome([db EXCEPT !.creds = [i \in ids |-> db.creds[i]],
                                !.meta = [i \in ids |-> db.meta[i]]],
                    200, TRUE, "Credential deleted", None, FALSE, TRUE, TRUE)

DeleteCredential ==
    /\ server = "up"
    /\ \E credential_id \in CredIds :
         LET crypto == get_crypto_instance
             out == IF crypto.ok THEN delete_credential(store, credential_id) ELSE Locked401
         IN /\ request' = [Req("delete_credential") EXCEPT !.id = credential_id]
            /\ store' = out.store
            /\ response' = out.response
            /\ effects' = out.effects
    /\ UNCHANGED <<_crypto, server, old_crypto, mig, vault_session, threads>>

(***************************************************************************)
(* The API process over a vault whose data was entered under the master    *)
(* password "pwA".                                                         *)
(***************************************************************************)
EmptyStore == [platforms |-> {"p1"}, creds |-> <<>>, meta |-> <<>>, keystore |-> None]

\* A store with one credential: username, password and notes under the
\* master password.
OneCredentialStore ==
    [platforms |-> {"p1"},
     creds |-> [id \in {1} |->
                  LegacyCredential(1, MasterPassword, {"username", "password", "notes"}, "", None)],
     meta |-> [id \in {1} |-> [platform_id |-> "p1", label |-> "Principal"]],
     keystore |-> None]

Init ==
    /\ store \in {EmptyStore, OneCredentialStore}
    /\ old_crypto = CryptoModule
    /\ mig = MigIdle
    /\ ApiIdle

Next ==
    \/ Lifespan
    \/ Restart
    \/ HealthCheck
    \/ UnlockVault
    \/ LockVault
    \/ GetPlatform
    \/ CreateCredential
    \/ UpdateCredential
    \/ DeleteCredential

Spec == Init /\ [][Next]_vars

(***************************************************************************)
(* The two session objects of the vault side by side: main.py's global     *)
(* _crypto and a crypto_hybrid.VaultSession of the same process, loaded    *)
(* from the keystore row of the database.                                  *)
(***************************************************************************)
\* VaultSession.load_keys on the stored key record.
LoadKeys ==
    /\ server = "up"
    /\ store.keystore # None
    /\ \E master_password \in Passwords :
         LET r == load_keys(vault_session, store.keystore.private_key_encrypted,
                            store.keystore.dek_encrypted, master_password)
         IN /\ vault_session' = r.self
            /\ request' = [Req("load_keys") EXCEPT !.master_password = master_password,
                                                  !.locked = ~is_active(vault_session)]
            /\ response' = [status |-> 0, success |-> ~r.raised,
                            detail |-> IF r.raised THEN "ValueError" ELSE "", body |-> None]
    /\ effects' = [cipher |-> TRUE, db_read |-> FALSE, db_write |-> FALSE]
    /\ UNCHANGED <<store, _crypto, server, old_crypto, mig, threads>>

\* VaultSession.clear
Clear ==
    /\ server = "up"
    /\ vault_session' = clear(vault_session)
    /\ request' = [Req("clear") EXCEPT !.locked = ~is_active(vault_session)]
    /\ response' = [status |-> 0, success |-> TRUE, detail |-> "", body |-> None]
    /\ effects' = NoEffects
    /\ UNCHANGED <<store, _crypto, server, old_crypto, mig, threads>>

\* A key record: the private key k under password pw, the DEK d wrapped
\* for the public key of keypair w; damaged names a blob that was cut.
KeyRecord(k, pw, d, w, damaged) ==
    LET priv == encrypt_private_key(RsaPrivateKey(k), pw, 1, 1)
        wrapped == encrypt_dek(Dek(d), public_key_of(RsaPrivateKey(w)))
    IN KeyStore("primary",
                serialize_public_key(public_key_of(RsaPrivateKey(w))),
                IF damaged = "private_key" THEN Join(SubSeq(Split(priv), 1, 3)) ELSE priv,
                IF damaged = "dek" THEN Str("AAAA") ELSE wrapped)

\* A database in the hybrid format: every field under the DEK d.
KeyedStore(d, keystore) ==
    [platforms |-> {"p1"},
     creds |-> [id \in CredIds |-> [f \in Fields |-> encrypt_data(PlainOf(id, f), Dek(d), 1)]],
     meta |-> PrincipalMeta,
     keystore |-> keystore]

\* Well-formed records of every key, password and DEK; records whose DEK is
\* wrapped for another keypair; records with a damaged blob.
KeyedStores ==
    { KeyedStore(d, KeyRecord(k, pw, d, w, "")) : k \in KeyIds, pw \in Passwords,
                                                   d \in KeyIds, w \in KeyIds }
    \cup { KeyedStore(1, KeyRecord(1, MasterPassword, 1, 1, damaged)) :
             damaged \in {"private_key", "dek"} }

InitSession ==
    /\ store \in KeyedStores
    /\ old_crypto = CryptoModule
    /\ mig = MigIdle
    /\ ApiIdle

NextSession ==
    \/ Lifespan
    \/ Restart
    \/ UnlockVault
    \/ LockVault
    \/ LoadKeys
    \/ Clear

SessionSpec == InitSession /\ [][NextSession]_vars

(***************************************************************************)
(* Concurrent callers of the session.  crypto_hybrid.py and main.py take   *)
(* no lock; a thread can be preempted between any two reads or writes of   *)
(* the shared object, so every such read and write is one step.  Work on   *)
(* arguments and locals is folded into the step that follows it.           *)
(***************************************************************************)
\* The thread t leaves its call.
Return(t, raised) == [ThreadIdle EXCEPT !.op = threads[t].op, !.raised = raised]

\* load_keys line 210, entered by an idle thread: decrypt_private_key on the
\* arguments, then the store to self.private_key.
LoadKeysPrivateKey(t) ==
    /\ server = "up"
    /\ threads[t].pc = "idle"
    /\ store.keystore # None
    /\ \E master_password \in Passwords :
         LET r == decrypt_private_key(store.keystore.private_key_encrypted, master_password)
         IN IF r.ok
            THEN /\ vault_session' = [vault_session EXCEPT !.private_key = r.v]
                 /\ threads' = [threads EXCEPT ![t] =
                                  [ThreadIdle EXCEPT !.pc = "read_private_key",
                                                     !.op = "load_keys",
                                                     !.master_password = master_password]]
            ELSE /\ vault_session' = vault_session
                 /\ threads' = [threads EXCEPT ![t] =
                                  [ThreadIdle EXCEPT !.op = "load_keys", !.raised = TRUE]]
    /\ UNCHANGED <<store, old_crypto, mig, apiVars>>

\* load_keys line 211, right-hand side: self.private_key.public_key();
\* AttributeError when the attribute is None by now.
LoadKeysReadPrivateKey(t) ==
    /\ threads[t].pc = "read_private_key"
    /\ threads' = [threads EXCEPT ![t] =
                     IF vault_session.private_key = None
                     THEN Return(t, TRUE)
                     ELSE [@ EXCEPT !.pc = "store_public_key",
                                    !.local = public_key_of(vault_session.private_key)]]
    /\ UNCHANGED <<store, old_crypto, mig, apiVars, vault_session>>

\* load_keys line 211, the store to self.public_key.
LoadKeysStorePublicKey(t) ==
    /\ threads[t].pc = "store_public_key"
    /\ vault_session' = [vault_session EXCEPT !.public_key = threads[t].local]
    /\ threads' = [threads EXCEPT ![t] = [@ EXCEPT !.pc = "unwrap_dek", !.local = None]]
    /\ UNCHANGED <<store, old_crypto, mig, apiVars>>

\* load_keys line 212, right-hand side: decrypt_dek(encrypted_dek,
\* self.private_key); AttributeError inside decrypt_dek when it is None.
LoadKeysUnwrapDek(t) ==
    /\ threads[t].pc = "unwrap_dek"
    /\ threads' = [threads EXCEPT ![t] =
                     IF vault_session.private_key = None
                     THEN Return(t, TRUE)
                     ELSE LET d == decrypt_dek(store.keystore.dek_encrypted,
                                               vault_session.private_key)
                          IN IF d.ok THEN [@ EXCEPT !.pc = "store_dek", !.local = d.v]
                             ELSE Return(t, TRUE)]
    /\ UNCHANGED <<store, old_crypto, mig, apiVars, vault_session>>

\* load_keys line 212, the store to self.dek.
LoadKeysStoreDek(t) ==
    /\ threads[t].pc = "store_dek"
    /\ vault_session' = [vault_session EXCEPT !.dek = threads[t].local]
    /\ threads' = [threads EXCEPT ![t] = Return(t, FALSE)]
    /\ UNCHANGED <<store, old_crypto, mig, apiVars>>

\* clear line 215, entered by an idle thread.
ClearPrivateKey(t) ==
    /\ server = "up"
    /\ threads[t].pc = "idle"
    /\ vault_session' = [vault_session EXCEPT !.private_key = None]
    /\ threads' = [threads EXCEPT ![t] =
                     [ThreadIdle EXCEPT !.pc = "clear_public_key", !.op = "clear"]]
    /\ UNCHANGED <<store, old_crypto, mig, apiVars>>

\* clear line 216.
ClearPublicKey(t) ==
    /\ threads[t].pc = "clear_public_key"
    /\ vault_session' = [vault_session EXCEPT !.public_key = None]
    /\ threads' = [threads EXCEPT ![t] = [@ EXCEPT !.pc = "clear_dek"]]
    /\ UNCHANGED <<store, old_crypto, mig, apiVars>>

\* clear line 217.
ClearDek(t) ==
    /\ threads[t].pc = "clear_dek"
    /\ vault_session' = [vault_session EXCEPT !.dek = None]
    /\ threads' = [threads EXCEPT ![t] = Return(t, FALSE)]
    /\ UNCHANGED <<store, old_crypto, mig, apiVars>>

\* Stores whose key record is well formed: sequential load_keys calls on
\* them either raise before the first store or load all three attributes.
WellFormedStores ==
    { KeyedStore(d, KeyRecord(k, pw, d, k, "")) : k \in KeyIds, pw \in Passwords, d \in {1} }

InitSessionThreads ==
    /\ store \in WellFormedStores
    /\ old_crypto = CryptoModule
    /\ mig = MigIdle
    /\ ApiIdle

NextSessionThreads ==
    \/ Lifespan
    \/ UnlockVault
    \/ LockVault
    \/ \E t \in ThreadIds : LoadKeysPrivateKey(t)
    \/ \E t \in ThreadIds : LoadKeysReadPrivateKey(t)
    \/ \E t \in ThreadIds : LoadKeysStorePublicKey(t)
    \/ \E t \in ThreadIds : LoadKeysUnwrapDek(t)
    \/ \E t \in ThreadIds : LoadKeysStoreDek(t)
    \/ \E t \in ThreadIds : ClearPrivateKey(t)
    \/ \E t \in ThreadIds : ClearPublicKey(t)
    \/ \E t \in ThreadIds : ClearDek(t)

SessionThreadsSpec == InitSessionThreads /\ [][NextSessionThreads]_vars

(***************************************************************************)
(* get_platform as the threadpool runs it, next to unlock_vault and        *)
(* lock_vault: the dependency reads the global _crypto once, the handler   *)
(* keeps the instance in its parameter crypto and calls crypto.decrypt     *)
(* field by field.                                                         *)
(***************************************************************************)
\* The ciphertexts get_platform passes to crypto.decrypt for one row, in
\* the order of lines 203-207.
RowDecrypts(row, show_secrets) ==
    LET fs == SelectSeq(FieldOrder,
                        LAMBDA f : Truthy(row[f]) /\ (f \notin Secret \/ show_secrets))
    IN [i \in 1 .. Len(fs) |-> row[fs[i]]]

\* The same for the rows ids, in order (for cred in platform.credentials).
RECURSIVE PlatformDecrypts(_, _, _)
PlatformDecrypts(db, ids, show_secrets) ==
    IF ids = <<>> THEN <<>>
    ELSE RowDecrypts(db.creds[Head(ids)], show_secrets)
             \o PlatformDecrypts(db, Tail(ids), show_secrets)

\* Depends(get_crypto_instance) of get_platform, on an idle thread: 401
\* while locked, else the handler is entered with the instance.
GetPlatformDepends(t) ==
    /\ server = "up"
    /\ threads[t].pc = "idle"
    /\ threads' = [threads EXCEPT ![t] =
                     IF get_crypto_instance.ok
                     THEN [ThreadIdle EXCEPT !.pc = "query", !.op = "get_platform",
                                             !.local = get_crypto_instance.v]
                     ELSE [ThreadIdle EXCEPT !.op = "get_platform", !.raised = TRUE]]
    /\ UNCHANGED <<store, old_crypto, mig, apiVars, vault_session>>

\* get_platform lines 192-198: the platform and its credentials are loaded.
GetPlatformQuery(t) ==
    /\ threads[t].pc = "query"
    /\ \E platform_id \in PlatformIds, show_secrets \in BOOLEAN :
         threads' = [threads EXCEPT ![t] =
                       IF platform_id \notin store.platforms
                       THEN Return(t, TRUE)
                       ELSE LET ids == { id \in DOMAIN store.creds :
                                           store.meta[id].platform_id = platform_id }
                                todo == PlatformDecrypts(store, SortedIds(ids), show_secrets)
                            IN IF todo = <<>> THEN Return(t, FALSE)
                               ELSE [@ EXCEPT !.pc = "decrypt", !.todo = todo]]
    /\ UNCHANGED <<store, old_crypto, mig, apiVars, vault_session>>

\* One crypto.decrypt call of lines 203-207, with the instance the thread
\* holds; an exception ends the request.
GetPlatformDecrypt(t) ==
    /\ threads[t].pc = "decrypt"
    /\ LET r == VaultCrypto_decrypt(threads[t].local, Head(threads[t].todo))
           rest == Tail(threads[t].todo)
           done == [threads[t] EXCEPT !.decrypts = @ + 1]
       IN threads' = [threads EXCEPT ![t] =
                        IF ~r.ok
                        THEN [Return(t, TRUE) EXCEPT !.decrypts = done.decrypts]
                        ELSE IF rest = <<>>
                        THEN [Return(t, FALSE) EXCEPT !.decrypts = done.decrypts]
                        ELSE [done EXCEPT !.todo = rest]]
    /\ UNCHANGED <<store, old_crypto, mig, apiVars, vault_session>>

InitRequestThreads ==
    /\ store \in {EmptyStore, OneCredentialStore}
    /\ old_crypto = CryptoModule
    /\ mig = MigIdle
    /\ ApiIdle

NextRequestThreads ==
    \/ Lifespan
    \/ UnlockVault
    \/ LockVault
    \/ \E t \in ThreadIds : GetPlatformDepends(t)
    \/ \E t \in ThreadIds : GetPlatformQuery(t)
    \/ \E t \in ThreadIds : GetPlatformDecrypt(t)

RequestThreadsSpec == InitRequestThreads /\ [][NextRequestThreads]_vars

(***************************************************************************)
(* The two field ciphers called directly, as test_crypto.py calls the      *)
(* legacy one: each action draws the arguments and the random bytes of the *)
(* calls, makes them, and leaves the arguments in request.data and the     *)
(* results in response.body; a behaviour is one call.  os.urandom never    *)
(* returns the same bytes to two calls; a repeat is as far outside this    *)
(* model as a forged tag.                                                  *)
(***************************************************************************)
\* Plaintexts: empty, one character, a falsy-looking "0", a word.
Texts == {Str(""), Str("x"), Str("0"), Str("secret")}

\* Whether the call reaches a cipher primitive: the early returns of
\* crypto.py lines 38-39 and 44-45, crypto_hybrid.py lines 153-154, 167-168.
VaultCrypto_encrypt_cipher(plaintext) == Truthy(plaintext)
VaultCrypto_decrypt_cipher(ciphertext) == Truthy(ciphertext)
encrypt_data_cipher(data) == Truthy(data)
decrypt_data_cipher(encrypted_blob) ==
    /\ Truthy(encrypted_blob)
    /\ DecodeParts(encrypted_blob).ok
    /\ Len(DecodeParts(encrypted_blob).v) = 3

\* What a direct call leaves behind: the arguments, the results, whether a
\* cipher primitive was reached.
Called(op, args, results, cipher) ==
    [request |-> [Req(op) EXCEPT !.data = args],
     response |-> [status |-> 0, success |-> TRUE, detail |-> "", body |-> results],
     effects |-> [cipher |-> cipher, db_read |-> FALSE, db_write |-> FALSE]]

\* The variables a direct call does not touch.
callFrame == <<store, _crypto, server, old_crypto, mig, vault_session, threads>>

\* encrypt then decrypt, with both ciphers (test_encrypt_decrypt_basic).
RoundTrip ==
    /\ request.op = "none"
    /\ UNCHANGED callFrame
    /\ \E s \in Texts, d \in KeyIds, n \in Nonces, pw \in Passwords, iv \in Nonces :
      LET blob == encrypt_data(s, Dek(d), n)
          crypto == get_crypto(pw)
          token == VaultCrypto_encrypt(crypto, s, iv)
          call == Called("round_trip",
                [t |-> "args", s |-> s, dek |-> Dek(d), password |-> pw],
                [t |-> "results",
                 blob |-> blob,
                 plain |-> decrypt_data(blob, Dek(d)),
                 token |-> token.v,
                 legacy_plain |-> VaultCrypto_decrypt(crypto, token.v)],
                \/ encrypt_data_cipher(s)
                \/ decrypt_data_cipher(blob)
                \/ VaultCrypto_encrypt_cipher(s)
                \/ VaultCrypto_decrypt_cipher(token.v))
      IN /\ request' = call.request
         /\ response' = call.response
         /\ effects' = call.effects

\* Two encrypt calls on one plaintext under one key
\* (test_encrypt_produces_different_output), each with its own random bytes.
EncryptTwice ==
    /\ request.op = "none"
    /\ UNCHANGED callFrame
    /\ \E s \in Texts, d \in KeyIds, pw \in Passwords, n1 \in Nonces, n2 \in Nonces :
      /\ n1 # n2
      /\ LET crypto == get_crypto(pw)
             blob1 == encrypt_data(s, Dek(d), n1)
             blob2 == encrypt_data(s, Dek(d), n2)
             token1 == VaultCrypto_encrypt(crypto, s, n1).v
             token2 == VaultCrypto_encrypt(crypto, s, n2).v
             call == Called("encrypt_twice",
                   [t |-> "args", s |-> s, dek |-> Dek(d), password |-> pw],
                   [t |-> "results",
                    blobs |-> <<blob1, blob2>>,
                    plains |-> <<decrypt_data(blob1, Dek(d)), decrypt_data(blob2, Dek(d))>>,
                    tokens |-> <<token1, token2>>,
                    legacy_plains |-> <<VaultCrypto_decrypt(crypto, token1),
                                        VaultCrypto_decrypt(crypto, token2)>>],
                   encrypt_data_cipher(s) \/ VaultCrypto_encrypt_cipher(s))
         IN /\ request' = call.request
            /\ response' = call.response
            /\ effects' = call.effects

\* Bytes no call of this program produced, and a text urlsafe_b64decode
\* rejects (one character: incorrect padding).
RandomBytes == [t |-> "bytes", utf8 |-> "\\x8f\\x02"]
NotBase64 == Str("a")

\* Every blob encrypt_data can return for a non-empty text.
FieldBlobs ==
    { encrypt_data(s, Dek(d), n) : s \in Texts \ {Str("")}, d \in KeyIds, n \in Nonces }

\* The stored texts a part of blob can be replaced with: the same part of
\* another blob, the encoding of other bytes, a text that is not base64.
Replacements(blob, i) ==
    ({ Split(b)[i] : b \in FieldBlobs } \cup {urlsafe_b64encode(RandomBytes), NotBase64})
        \ {Split(blob)[i]}

\* blob = encrypt_data(s, Dek(d), n) with the bytes of its tag changed, the
\* bytes of its ciphertext changed, both taken from a blob of another key
\* or another nonce, the text of its tag or ciphertext changed to another
\* encoding of the same bytes, or its number of parts changed.
Tampered(blob, d, n) ==
    { [kind |-> "tag", blob |-> Join([Split(blob) EXCEPT ![2] = x])] :
        x \in Replacements(blob, 2) }
    \cup { [kind |-> "ciphertext", blob |-> Join([Split(blob) EXCEPT ![3] = x])] :
             x \in Replacements(blob, 3) }
    \cup { [kind |-> "both",
            blob |-> Join([Split(blob) EXCEPT ![2] = Split(b)[2], ![3] = Split(b)[3]])] :
             b \in { encrypt_data(s2, Dek(q[1]), q[2]) :
                       s2 \in Texts \ {Str("")},
                       q \in { r \in KeyIds \X Nonces : r[1] # d \/ r[2] # n } } }
    \cup { [kind |-> "reencoded",
            blob |-> Join([Split(blob) EXCEPT ![i] = Reencoded(Split(blob)[i])])] :
             i \in {2, 3} }
    \cup { [kind |-> "parts", blob |-> b] :
             b \in { Join(SubSeq(Split(blob), 1, 2)),
                     Join(Split(blob) \o <<Split(blob)[3]>>),
                     Join(<<Split(blob)[3]>>),
                     VaultCrypto_encrypt(get_crypto(MasterPassword), Str("x"), n).v } }

\* decrypt_data on a stored blob that was changed after encrypt_data
\* returned it.
DecryptTampered ==
    /\ request.op = "none"
    /\ UNCHANGED callFrame
    /\ \E s \in Texts \ {Str("")}, d \in KeyIds, n \in Nonces :
      LET blob == encrypt_data(s, Dek(d), n)
      IN \E tb \in Tampered(blob, d, n) :
         LET call ==
           Called("decrypt_tampered",
                  [t |-> "args", s |-> s, dek |-> Dek(d), blob |-> blob,
                   kind |-> tb.kind, tampered |-> tb.blob],
                  [t |-> "results", outcome |-> decrypt_data(tb.blob, Dek(d))],
                  decrypt_data_cipher(tb.blob))
         IN /\ request' = call.request
            /\ response' = call.response
            /\ effects' = call.effects

\* A ciphertext of one VaultCrypto given to another
\* (test_wrong_password_fails_decrypt,
\* test_different_passwords_produce_different_outputs).
DecryptOtherPassword ==
    /\ request.op = "none"
    /\ UNCHANGED callFrame
    /\ \E s \in Texts, pw1 \in Passwords, pw2 \in Passwords, iv1 \in Nonces, iv2 \in Nonces :
      LET crypto1 == get_crypto(pw1)
          crypto2 == get_crypto(pw2)
          encrypted1 == VaultCrypto_encrypt(crypto1, s, iv1).v
          encrypted2 == VaultCrypto_encrypt(crypto2, s, iv2).v
          call == Called("decrypt_other_password",
                [t |-> "args", s |-> s, password1 |-> pw1, password2 |-> pw2],
                [t |-> "results", encrypted1 |-> encrypted1, encrypted2 |-> encrypted2,
                 outcome |-> VaultCrypto_decrypt(crypto2, encrypted1)],
                VaultCrypto_encrypt_cipher(s) \/ VaultCrypto_decrypt_cipher(encrypted1))
      IN /\ request' = call.request
         /\ response' = call.response
         /\ effects' = call.effects

\* The wrapped private key of keypair k under password pw, as stored or
\* damaged: the bytes of a part replaced, the text of a part changed to
\* another encoding of the same bytes, or the number of parts changed.
WrappedKeys(k, pw, salt, nonce) ==
    LET blob == encrypt_private_key(RsaPrivateKey(k), pw, salt, nonce)
        other == { encrypt_private_key(RsaPrivateKey(k2), pw2, s2, n2) :
                     k2 \in KeyIds, pw2 \in Passwords, s2 \in Nonces, n2 \in Nonces }
    IN { [cause |-> "none", blob |-> blob] }
       \cup { [cause |-> "tampered", blob |-> Join([Split(blob) EXCEPT ![c[1]] = c[2]])] :
                c \in { e \in (1 .. 4) \X ({ Split(b)[j] : b \in other, j \in 1 .. 4 }
                                            \cup {urlsafe_b64encode(RandomBytes), NotBase64}) :
                        e[2] # Split(blob)[e[1]] } }
       \cup { [cause |-> "reencoded",
               blob |-> Join([Split(blob) EXCEPT ![i] = Reencoded(Split(blob)[i])])] :
                i \in 1 .. 4 }
       \cup { [cause |-> "parts", blob |-> b] :
                b \in { Join(SubSeq(Split(blob), 1, 3)),
                        Join(Split(blob) \o <<Split(blob)[4]>>),
                        NotBase64 } }

\* decrypt_private_key on such a blob, with the password of the record or
\* another.
DecryptPrivateKey ==
    /\ request.op = "none"
    /\ UNCHANGED callFrame
    /\ \E k \in KeyIds, pw \in Passwords, salt \in Nonces, nonce \in Nonces,
          master_password \in Passwords :
      \E w \in WrappedKeys(k, pw, salt, nonce) :
        LET call ==
        Called("decrypt_private_key",
               [t |-> "args", private_key |-> RsaPrivateKey(k), password |-> pw,
                cause |-> w.cause, blob |-> w.blob, master_password |-> master_password],
               [t |-> "results", outcome |-> decrypt_private_key(w.blob, master_password)],
               DecodeParts(w.blob).ok /\ Len(DecodeParts(w.blob).v) = 4)
        IN /\ request' = call.request
           /\ response' = call.response
           /\ effects' = call.effects

InitCipher ==
    /\ store = EmptyStore
    /\ old_crypto = CryptoModule
    /\ mig = MigIdle
    /\ ApiIdle

NextCipher ==
    \/ RoundTrip
    \/ EncryptTwice
    \/ DecryptTampered
    \/ DecryptOtherPassword
    \/ DecryptPrivateKey

CipherSpec == InitCipher /\ [][NextCipher]_vars

(***************************************************************************)
(* Setup.  No file under src/ defines it; schemas.py declares              *)
(* HealthResponse.is_setup for it.  It is modelled from the specification  *)
(* of the Keystore Manager: it fails if a keystore record exists;          *)
(* otherwise it generates a keypair and a DEK, wraps the private key under *)
(* the password and the DEK under the public key, the record is persisted, *)
(* and the session holds the new material.                                 *)
(***************************************************************************)
\* Setup replacing whatever record exists.
Setup_Overwrites ==
    /\ server = "up"
    /\ \E master_password \in Passwords, k \in KeyIds, d \in KeyIds,
          salt \in Nonces, nonce \in Nonces :
         LET keys == generate_rsa_keypair(k)
             dek == generate_dek(d)
             record == KeyStore("primary",
                                serialize_public_key(keys[2]),
                                encrypt_private_key(keys[1], master_password, salt, nonce),
                                encrypt_dek(dek, keys[2]))
         IN /\ request' = [Req("setup") EXCEPT !.master_password = master_password,
                                               !.locked = ~is_active(vault_session)]
            /\ store' = [store EXCEPT !.keystore = record]
            /\ vault_session' = [private_key |-> keys[1], public_key |-> keys[2],
                                 dek |-> dek]
            /\ response' = [status |-> 0, success |-> TRUE, detail |-> "", body |-> record]
            /\ effects' = [cipher |-> TRUE, db_read |-> TRUE, db_write |-> TRUE]
    /\ UNCHANGED <<_crypto, server, old_crypto, mig, threads>>

\* setup(master_password)
Setup ==
    /\ server = "up"
    /\ \E master_password \in Passwords, k \in KeyIds, d \in KeyIds,
          salt \in Nonces, nonce \in Nonces :
         LET keys == generate_rsa_keypair(k)
             dek == generate_dek(d)
             record == KeyStore("primary",
                                serialize_public_key(keys[2]),
                                encrypt_private_key(keys[1], master_password, salt, nonce),
                                encrypt_dek(dek, keys[2]))
         IN /\ request' = [Req("setup") EXCEPT !.master_password = master_password,
                                               !.locked = ~is_active(vault_session)]
            /\ IF store.keystore # None
               THEN /\ store' = store
                    /\ vault_session' = vault_session
                    /\ response' = [status |-> 0, success |-> FALSE,
                                    detail |-> "AlreadyInitialized", body |-> None]
                    /\ effects' = [cipher |-> FALSE, db_read |-> TRUE, db_write |-> FALSE]
               ELSE /\ store' = [store EXCEPT !.keystore = record]
                    /\ vault_session' = [private_key |-> keys[1], public_key |-> keys[2],
                                         dek |-> dek]
                    /\ response' = [status |-> 0, success |-> TRUE, detail |-> "",
                                    body |-> record]
                    /\ effects' = [cipher |-> TRUE, db_read |-> TRUE, db_write |-> TRUE]
    /\ UNCHANGED <<_crypto, server, old_crypto, mig, threads>>

InitSetup ==
    /\ store = EmptyStore
    /\ old_crypto = CryptoModule
    /\ mig = MigIdle
    /\ ApiIdle

NextSetup ==
    \/ Lifespan
    \/ Restart
    \/ Setup
    \/ LoadKeys
    \/ Clear

SetupSpec == InitSetup /\ [][NextSetup]_vars

(***************************************************************************)
(* Concurrent runs of migrate.py.  Each run is a process of its own with   *)
(* its own database session; the processes share the database only.  mig   *)
(* is the record of the process that is running; the processes that are    *)
(* not running keep theirs in threads[p].local.  The scheduler can switch  *)
(* between any two steps, so every interleaving of the steps of the        *)
(* processes is a behaviour.  Each process runs migrate() once.            *)
(***************************************************************************)
\* The migration record of process p.
Proc(p) == IF threads[p].pc = "running" THEN mig ELSE threads[p].local

\* The scheduler stops the running process p and resumes q.
Switch ==
    /\ \E p \in ThreadIds, q \in ThreadIds :
         /\ threads[p].pc = "running"
         /\ threads[q].pc = "parked"
         /\ mig' = threads[q].local
         /\ threads' = [threads EXCEPT ![p] = [@ EXCEPT !.pc = "parked", !.local = mig],
                                       ![q] = [@ EXCEPT !.pc = "running", !.local = None]]
    /\ UNCHANGED <<store, old_crypto, apiVars, vault_session>>

\* python migrate.py, once per process.
MigrateStartOnce == mig.run = 0 /\ MigrateStart

\* Un-migrated stores whose first credential has a username and a password
\* (valid, or one of them corrupted or under another password) or nothing,
\* and whose other credentials are empty.
UnmigratedStores ==
    { db \in LegacyStores :
        /\ \A f \in {"pin", "extra", "notes"} : db.creds[1][f] = None
        /\ \A id \in DOMAIN db.creds \ {1} : \A f \in Fields : db.creds[id][f] = None }

InitConcurrentMigrate ==
    /\ store \in UnmigratedStores
    /\ old_crypto \in {CryptoModule, CryptoModule \cup LegacyApi}
    /\ mig = MigIdle
    /\ _crypto = None
    /\ server = "down"
    /\ request = NoRequest
    /\ response = NoResponse
    /\ effects = NoEffects
    /\ vault_session = VaultSession
    /\ threads = [p \in ThreadIds |->
                    IF p = 1 THEN [ThreadIdle EXCEPT !.pc = "running", !.op = "migrate"]
                    ELSE [ThreadIdle EXCEPT !.pc = "parked", !.op = "migrate",
                                            !.local = MigIdle]]

NextConcurrentMigrate ==
    \/ Switch
    \/ MigrateStartOnce
    \/ MigrateCheck
    \/ MigrateGetpass
    \/ MigrateDerive
    \/ MigrateQuery
    \/ MigrateKeygen
    \/ MigrateLoop
    \/ MigrateKeystore
    \/ MigrateFinish
    \/ MigrateCrash

ConcurrentMigrateSpec == InitConcurrentMigrate /\ [][NextConcurrentMigrate]_vars

(***************************************************************************)
(* Claims about migrate().                                                 *)
(***************************************************************************)
\* Every populated field of creds decrypts under the legacy key of password.
AllDecrypt(creds, password) ==
    \A id \in DOMAIN creds : \A f \in Fields :
        Truthy(creds[id][f]) => VaultCrypto_decrypt(get_crypto(password), creds[id][f]).ok

\* A run has returned that started without a keystore row and was given a
\* password.
ReturnedRun ==
    /\ mig.pc = "done"
    /\ mig.result # "crashed"
    /\ mig.pre.keystore = None
    /\ mig.master_password # ""

\* The session load_keys leaves when given the keystore row of db.
Unlocked(db, password) ==
    load_keys(VaultSession, db.keystore.private_key_encrypted,
              db.keystore.dek_encrypted, password)

\* db is the complete migration of pre: the keystore row is there, it opens
\* under password, and every field that was populated holds a hybrid blob
\* whose plaintext under the keystore's DEK is the legacy plaintext, every
\* other field None.
MigratedFrom(pre, db, password) ==
    /\ db.keystore # None
    /\ DOMAIN db.creds = DOMAIN pre.creds
    /\ ~Unlocked(db, password).raised
    /\ \A id \in DOMAIN pre.creds : \A f \in Fields :
         IF Truthy(pre.creds[id][f])
         THEN /\ db.creds[id][f].t = "joined"
              /\ decrypt_data(db.creds[id][f], Unlocked(db, password).self.dek)
                   = VaultCrypto_decrypt(get_crypto(password), pre.creds[id][f])
         ELSE db.creds[id][f] = None

\* C1: when a run that started without a keystore row returns and some
\* legacy field did not decrypt under the password given, every credential
\* field of the store has its pre-migration value and there is no keystore
\* row.
C1_AbortLeavesStore ==
    (ReturnedRun /\ ~AllDecrypt(mig.pre.creds, mig.master_password))
        => (store.creds = mig.pre.creds /\ store.keystore = None)

\* A run rolled back after re-encrypting one credential and failing on another.
C1_Witness ==
    /\ ReturnedRun
    /\ ~AllDecrypt(mig.pre.creds, mig.master_password)
    /\ mig.result = "rolled_back"
    /\ mig.success_count > 0
    /\ mig.error_count > 0
    /\ \A id \in DOMAIN mig.pre.creds : \E f \in Fields : Truthy(mig.pre.creds[id][f])

\* C2: when a run that started without a keystore row returns, every legacy
\* field decrypted under the password given and the database accepted the
\* commit, the run has committed: the store is the complete migration of the
\* store it started from.
C2_SuccessCommits ==
    (ReturnedRun /\ AllDecrypt(mig.pre.creds, mig.master_password)
                 /\ mig.result # "commit_error")
        => (mig.result = "committed" /\ MigratedFrom(mig.pre, store, mig.master_password))

\* C3: after a committed run, load_keys on the committed keystore row with
\* the same password succeeds and decrypt_data gives, for every migrated
\* field, the plaintext the legacy ciphertext decrypted to.
C3_MigratedRoundTrip ==
    (mig.pc = "done" /\ mig.result = "committed")
        => LET s == Unlocked(store, mig.master_password)
           IN /\ ~s.raised
              /\ is_active(s.self)
              /\ \A id \in DOMAIN mig.pre.creds : \A f \in Fields :
                   Truthy(mig.pre.creds[id][f])
                     => /\ decrypt_data(store.creds[id][f], s.self.dek).ok
                        /\ decrypt_data(store.creds[id][f], s.self.dek)
                             = VaultCrypto_decrypt(get_crypto(mig.master_password),
                                                   mig.pre.creds[id][f])

\* A committed run over a store whose two credentials have all five fields.
C3_Witness ==
    /\ mig.pc = "done"
    /\ mig.result = "committed"
    /\ \A id \in DOMAIN mig.pre.creds : \A f \in Fields : Truthy(mig.pre.creds[id][f])

\* C4: a run started on a store that holds a keystore row changes no
\* credential field and no keystore row, and ends at the keystore test.
C4_RefusesWhenMigrated ==
    (mig.pc # "idle" /\ mig.pre.keystore # None)
        => /\ store = mig.pre
           /\ mig.pc \in {"check", "done"}
           /\ mig.pc = "done" => mig.result \in {"already_migrated", "crashed"}

\* A run refused as already migrated.
C4_Witness ==
    /\ mig.pc = "done"
    /\ mig.result = "already_migrated"
    /\ mig.pre.keystore # None
    /\ store = mig.pre

\* C5: in every state of a run, crashes and failed commits included, the
\* store is the store the run started from or its complete migration.
C5_NoPartialMigration ==
    mig.pc # "idle"
        => \/ store = mig.pre
           \/ /\ mig.pre.keystore = None
              /\ MigratedFrom(mig.pre, store, mig.master_password)

\* A run that died, or whose commit failed, after it had re-encrypted a
\* credential in its session.
C5_Witness ==
    /\ mig.pc = "done"
    /\ mig.result \in {"crashed", "commit_error"}
    /\ mig.success_count = Cardinality(DOMAIN mig.pre.creds)
    /\ \A id \in DOMAIN mig.pre.creds : \E f \in Fields : Truthy(mig.pre.creds[id][f])
    /\ store = mig.pre
    /\ store.keystore = None

(***************************************************************************)
(* Claims about the session: main.py's _crypto and VaultSession.           *)
(***************************************************************************)
\* The session went from Locked to Unlocked, or back, in this step.
BecomesUnlocked == _crypto = None /\ _crypto' # None
BecomesLocked == _crypto # None /\ _crypto' = None
BecomesActive == ~is_active(vault_session) /\ is_active(vault_session')
BecomesInactive == is_active(vault_session) /\ ~is_active(vault_session')

\* C6 as stated: the session is Locked when the process starts; it becomes
\* Unlocked only through an unlock (or setup) that succeeds and Locked only
\* through lock or a restart; no other operation and no startup step
\* changes the session state.
C6_OnlyUnlockAndLock ==
    [][ /\ server = "down" => (_crypto = None /\ ~is_active(vault_session))
        /\ BecomesUnlocked => (request'.op = "unlock" /\ response'.success)
        /\ BecomesLocked => request'.op \in {"lock", "restart"}
        /\ BecomesActive => (request'.op = "load_keys" /\ response'.success)
        /\ BecomesInactive => request'.op \in {"clear", "restart"}
      ]_vars

\* C6 (amended): the session is Locked when the process starts; it becomes
\* Unlocked only through an unlock (or setup) that succeeds or through the
\* startup step lifespan when VAULT_MASTER_KEY is set, and Locked only
\* through lock or a restart; no other operation changes the session state.
C6_SessionTransitions ==
    [][ /\ server = "down" => (_crypto = None /\ ~is_active(vault_session))
        /\ BecomesUnlocked =>
             \/ request'.op = "unlock" /\ response'.success
             \/ request'.op = "lifespan" /\ request'.master_password # ""
        /\ BecomesLocked => request'.op \in {"lock", "restart"}
        /\ BecomesActive => (request'.op = "load_keys" /\ response'.success)
        /\ BecomesInactive => request'.op \in {"clear", "restart"}
      ]_vars

\* lifespan has unlocked the session from the environment.
C6_Witness ==
    /\ request.op = "lifespan"
    /\ request.master_password # ""
    /\ request.locked
    /\ _crypto = get_crypto(request.master_password)

\* C7: from a Locked session, unlock with a password that is not the
\* vault's master password reports failure and leaves the session Locked.
C7_WrongPasswordStaysLocked ==
    [][ (/\ request'.op = "unlock"
         /\ _crypto = None
         /\ request'.master_password # MasterPassword)
        => (~response'.success /\ _crypto' = None) ]_vars

\* C8: for a key record built by encrypt_private_key(priv, pw) and
\* encrypt_dek(dek, pub), pub the public key of priv, load_keys with pw
\* does not raise and leaves the session active holding exactly dek, and
\* every field encrypted under dek decrypts to its plaintext with the key
\* the session holds.
C8_CorrectPasswordUnlocks ==
    [][ \A k \in KeyIds, d \in KeyIds, pw \in Passwords, salt \in Nonces, nonce \in Nonces :
          (/\ request'.op = "load_keys"
           /\ request'.master_password = pw
           /\ store.keystore.private_key_encrypted =
                  encrypt_private_key(RsaPrivateKey(k), pw, salt, nonce)
           /\ store.keystore.dek_encrypted =
                  encrypt_dek(Dek(d), public_key_of(RsaPrivateKey(k))))
          => /\ response'.success
             /\ is_active(vault_session')
             /\ vault_session'.dek = Dek(d)
             /\ \A id \in CredIds, f \in Fields, n \in Nonces :
                  decrypt_data(encrypt_data(PlainOf(id, f), Dek(d), n), vault_session'.dek)
                      = Ok(PlainOf(id, f))
      ]_vars

\* load_keys has opened a locked session on a record of the second keypair
\* and the second DEK, and the stored fields decrypt.
C8_Witness ==
    /\ request.op = "load_keys"
    /\ request.locked
    /\ response.success
    /\ is_active(vault_session)
    /\ vault_session.private_key = RsaPrivateKey(2)
    /\ vault_session.dek = Dek(2)
    /\ \A id \in DOMAIN store.creds : \A f \in Fields :
         decrypt_data(store.creds[id][f], vault_session.dek) = Ok(PlainOf(id, f))

\* Everything but the record of the request served.
StateAfter == <<store, old_crypto, mig, _crypto, server, response, effects, vault_session,
                threads>>

\* C9: lock succeeds from any session state and leaves no key material in
\* memory; a second consecutive lock raises nothing and leaves the state
\* as the first left it.  Both for lock_vault and for VaultSession.clear.
C9_LockIdempotent ==
    [][ /\ request'.op = "lock" =>
             /\ response'.success
             /\ _crypto' = None
             /\ request.op = "lock" => StateAfter' = StateAfter
        /\ request'.op = "clear" =>
             /\ response'.success
             /\ vault_session'.private_key = None
             /\ vault_session'.public_key = None
             /\ vault_session'.dek = None
             /\ request.op = "clear" => StateAfter' = StateAfter
      ]_vars

\* A second lock directly after a lock.
C9_Witness ==
    /\ request.op = "lock"
    /\ request.prev = "lock"
    /\ request.locked
    /\ _crypto = None
    /\ vault_session = VaultSession

\* The boundary operations that encrypt or decrypt a field.
CipherOps == {"get_platform", "create_credential", "update_credential"}

\* C10: while the session is Locked, every boundary operation that
\* encrypts or decrypts a field fails with the vault-locked error, with no
\* cipher call made and the store neither read nor written.
C10_LockedGate ==
    [][ (request'.op \in CipherOps /\ _crypto = None)
        => /\ response'.status = 401
           /\ response'.detail = "Vault is locked. Unlock first with /unlock"
           /\ ~response'.success
           /\ effects' = NoEffects
           /\ store' = store ]_vars

\* create_credential was refused on a locked vault that holds a credential.
C10_Witness ==
    /\ request.op = "create_credential"
    /\ request.locked
    /\ response.status = 401
    /\ store = OneCredentialStore

(***************************************************************************)
(* Claims about concurrent callers.                                        *)
(***************************************************************************)
\* No thread is inside a call.
Quiescent == \A t \in ThreadIds : threads[t].pc = "idle"

\* The session holds nothing, or a private key with its public key and the
\* DEK the stored record wraps for it.
SessionConsistent ==
    \/ vault_session = VaultSession
    \/ /\ vault_session.private_key # None
       /\ vault_session.public_key = public_key_of(vault_session.private_key)
       /\ decrypt_dek(store.keystore.dek_encrypted, vault_session.private_key)
              = Ok(vault_session.dek)

\* C11: under every interleaving of concurrent load_keys and clear calls
\* (and unlock_vault and lock_vault), once the calls have returned the
\* session is consistent: never a private key without a DEK, never a DEK
\* without the private key it was unwrapped with.
C11_SessionNeverInconsistent ==
    Quiescent => (SessionConsistent /\ _crypto \in {None} \cup {get_crypto(pw) : pw \in Passwords})

\* C12: in every interleaving of lock_vault with a request that reads
\* credentials, every decrypt call of the request is executed while the
\* session is Unlocked.
C12_DecryptOnlyWhileUnlocked ==
    [][ \A t \in ThreadIds :
          threads'[t].decrypts > threads[t].decrypts => _crypto # None ]_vars

(***************************************************************************)
(* Claims about the field ciphers called directly.                         *)
(***************************************************************************)
\* The arguments and results of the direct call a state records.
Args == request.data
Results == response.body

\* C13: for every string s, every DEK and every password, decrypt_data of
\* encrypt_data(s, dek) under the same dek returns s, VaultCrypto.decrypt of
\* VaultCrypto.encrypt(s) by the same instance returns s, and for a
\* non-empty s neither ciphertext is s itself.
C13_RoundTrip ==
    request.op = "round_trip" =>
        /\ Results.plain = Ok(Args.s)
        /\ Results.legacy_plain = Ok(Args.s)
        /\ Truthy(Args.s) => (Results.blob # Args.s /\ Results.token # Args.s)

\* A non-empty string went through both ciphers and came back.
C13_Witness ==
    /\ request.op = "round_trip"
    /\ Args.s = Str("secret")
    /\ Results.blob # Str("")
    /\ Results.plain = Ok(Str("secret"))
    /\ Results.legacy_plain = Ok(Str("secret"))

\* C14: two encrypt calls on one non-empty plaintext under one key carry
\* the distinct nonces drawn for them, return unequal ciphertexts, and both
\* ciphertexts decrypt to the plaintext.
C14_EncryptTwiceDiffers ==
    (request.op = "encrypt_twice" /\ Truthy(Args.s)) =>
        /\ Split(Results.blobs[1])[1] # Split(Results.blobs[2])[1]
        /\ Results.blobs[1] # Results.blobs[2]
        /\ Results.tokens[1] # Results.tokens[2]
        /\ Results.plains = <<Ok(Args.s), Ok(Args.s)>>
        /\ Results.legacy_plains = <<Ok(Args.s), Ok(Args.s)>>

\* "secret" was encrypted twice under one DEK and both blobs opened.
C14_Witness ==
    /\ request.op = "encrypt_twice"
    /\ Args.s = Str("secret")
    /\ effects.cipher
    /\ Results.plains[1].ok /\ Results.plains[2].ok

\* C15 as stated: decrypt_data on a blob of encrypt_data whose tag part or
\* ciphertext part was changed, in its bytes or only in its text, fails
\* with an error.
C15_AnyChangeFails ==
    (/\ request.op = "decrypt_tampered"
     /\ Args.kind \in {"tag", "ciphertext", "both", "reencoded"}) =>
        ~Results.outcome.ok

\* C15, amended: a change to the bytes of the tag or of the ciphertext makes
\* decrypt_data raise ValueError("Decryption failed"); a change of their
\* text alone that decodes to the same bytes returns the original
\* plaintext; decrypt_data on a changed non-empty blob never returns any
\* other plaintext, altered, partial, empty or default.
C15_TamperDetected ==
    request.op = "decrypt_tampered" =>
        /\ Args.kind \in {"tag", "ciphertext", "both"} =>
              Results.outcome = Raise("ValueError: Decryption failed")
        /\ Args.kind = "reencoded" => Results.outcome = Ok(Args.s)
        /\ Results.outcome.ok => Results.outcome.v = Args.s

\* A blob with the bytes of its tag replaced reached the cipher and was
\* refused.
C15_Witness ==
    /\ request.op = "decrypt_tampered"
    /\ Args.kind = "tag"
    /\ Split(Args.tampered)[3] = Split(Args.blob)[3]
    /\ effects.cipher
    /\ ~Results.outcome.ok

\* C16: the empty string encrypts to the empty string and the empty string
\* decrypts to the empty string, in VaultCrypto and in
\* encrypt_data/decrypt_data, and none of the four calls reaches a cipher.
C16_EmptyBypassesCipher ==
    (request.op = "round_trip" /\ Args.s = Str("")) =>
        /\ Results.blob = Str("")
        /\ Results.plain = Ok(Str(""))
        /\ Results.token = Str("")
        /\ Results.legacy_plain = Ok(Str(""))
        /\ ~effects.cipher

\* The empty string went through the four calls.
C16_Witness ==
    /\ request.op = "round_trip"
    /\ Args.s = Str("")
    /\ Results.plain.ok
    /\ Results.legacy_plain.ok

\* C17: a non-empty ciphertext of the VaultCrypto of one password, given to
\* the VaultCrypto of a different password, raises ValueError("Invalid
\* master password or corrupted data"), and the ciphertexts of one
\* plaintext under the two passwords are unequal.
C17_OtherPasswordFails ==
    (/\ request.op = "decrypt_other_password"
     /\ Truthy(Args.s)
     /\ Args.password1 # Args.password2) =>
        /\ Results.outcome = Raise("ValueError: Invalid master password or corrupted data")
        /\ Results.encrypted1 # Results.encrypted2

\* "secret" encrypted under pwA was given to the VaultCrypto of pwB.
C17_Witness ==
    /\ request.op = "decrypt_other_password"
    /\ Args.s = Str("secret")
    /\ Args.password1 = "pwA"
    /\ Args.password2 = "pwB"
    /\ ~Results.outcome.ok

\* The one error decrypt_private_key lets its caller see.
UnlockFailure == Raise("ValueError: Invalid password or corrupted key data")

\* C18: decrypt_private_key fails when the password is not the one that
\* wrapped the key, when the bytes of a part of the blob were changed and
\* when the blob is not four parts, and in each of these runs the caller
\* gets one and the same error, so no two failing runs differ; with the
\* right password and the bytes intact it returns the key.
C18_NoUnlockOracle ==
    request.op = "decrypt_private_key" =>
        IF Args.cause \in {"none", "reencoded"} /\ Args.master_password = Args.password
        THEN Results.outcome = Ok(Args.private_key)
        ELSE Results.outcome = UnlockFailure

\* The right password on a blob of three parts fails as a wrong password
\* does.
C18_Witness ==
    /\ request.op = "decrypt_private_key"
    /\ Args.cause = "parts"
    /\ Args.master_password = Args.password
    /\ Results.outcome = UnlockFailure

\* What decrypt_data gives for the blob of this call with only its tag
\* replaced.
TagMismatch ==
    decrypt_data(Join([Split(Args.blob) EXCEPT ![2] = urlsafe_b64encode(RandomBytes)]),
                 Args.dek)

\* C19: decrypt_data on a non-empty stored value that is not three parts
\* fails, with an error that differs from the one a tag mismatch raises,
\* and leaves the store as it was.
C19_MalformedBlobDistinct ==
    (request.op = "decrypt_tampered" /\ Args.kind = "parts") =>
        /\ ~Results.outcome.ok
        /\ ~TagMismatch.ok
        /\ Results.outcome # TagMismatch
        /\ store = EmptyStore

(***************************************************************************)
(* Claims about the keystore row.                                          *)
(***************************************************************************)
\* C20: every KeyStore row a migration run adds has the primary key
\* "primary", so the table never holds more than one, and once the store
\* holds the row no step of any later run changes, replaces or removes it.
C20_SingleKeyStore ==
    [][ /\ mig'.added # None => mig'.added.id = "primary"
        /\ store.keystore # None => store'.keystore = store.keystore ]_vars

\* A second run has returned at the keystore test and the row is the one it
\* found.
C20_Witness ==
    /\ mig.pc = "done"
    /\ mig.run = 2
    /\ mig.result = "already_migrated"
    /\ store.keystore # None
    /\ store.keystore = mig.pre.keystore

(***************************************************************************)
(* Claims about what the store holds.                                      *)
(***************************************************************************)
\* What a reader of the stored value v who holds no key learns from it:
\* encodings and joins open to their contents, a PEM to its key; an AES-GCM
\* ciphertext, a tag, an OAEP ciphertext and a Fernet token open to nothing.
RECURSIVE Readable(_)
Readable(v) ==
    CASE v.t = "joined" -> UNION { Readable(v.parts[i]) : i \in 1 .. Len(v.parts) }
      [] v.t = "b64" -> Readable(v.v)
      [] v.t = "pem_public" -> {v.key}
      [] v.t = "pem_private" -> {v, v.key}
      [] v.t \in {"gcm_ct", "gcm_tag", "oaep", "token", "none"} -> {}
      [] OTHER -> {v}

\* Every value in a column of the store.
StoredValues(db) ==
    { db.creds[id][f] : id \in DOMAIN db.creds, f \in Fields }
    \cup (IF db.keystore = None THEN {}
          ELSE {db.keystore.public_key, db.keystore.private_key_encrypted,
                db.keystore.dek_encrypted})

\* The key material of the vault: data keys, private keys and their PEM
\* bytes, the keys derived from a password, the passwords.
KeyMaterial ==
    { Dek(d) : d \in KeyIds }
    \cup { RsaPrivateKey(k) : k \in KeyIds }
    \cup { private_bytes(RsaPrivateKey(k)) : k \in KeyIds }
    \cup { Argon2id(Salt(n), pw) : n \in Nonces, pw \in Passwords }
    \cup { PBKDF2HMAC(pw) : pw \in Passwords }
    \cup { Str(pw) : pw \in Passwords }

\* The forms the three columns of the keystore row have.
WrappedForms(row) ==
    /\ row.public_key.t = "pem_public"
    /\ LET parts == DecodeParts(row.private_key_encrypted)
       IN /\ parts.ok
          /\ Len(parts.v) = 4
          /\ parts.v[4].t = "gcm_ct"
          /\ parts.v[4].key.t = "argon2id"
          /\ parts.v[4].data.t = "pem_private"
    /\ LET wrapped == urlsafe_b64decode(row.dek_encrypted)
       IN /\ wrapped.ok
          /\ wrapped.v.t = "oaep"
          /\ wrapped.v.n = row.public_key.key.n
          /\ wrapped.v.data.t = "dek"

\* C21: in every state the keystore row, if any, holds a public key, a
\* private key encrypted under a password-derived key and a DEK encrypted
\* under that public key; every credential field is absent, a legacy token
\* or an AES-GCM blob; and no stored value lets a reader without a key read
\* a DEK, a private key, a derived key or a password.
C21_NoPlaintextKeyMaterial ==
    /\ store.keystore # None => WrappedForms(store.keystore)
    /\ \A id \in DOMAIN store.creds : \A f \in Fields :
         store.creds[id][f].t \in {"none", "token", "joined"}
    /\ \A v \in StoredValues(store) : Readable(v) \cap KeyMaterial = {}

\* A run has committed the keystore row it built and the fields it
\* re-encrypted.
C21_Witness ==
    /\ mig.pc = "done"
    /\ mig.result = "committed"
    /\ mig.pre.keystore = None
    /\ store.keystore # None
    /\ \E id \in DOMAIN store.creds : store.creds[id]["password"].t = "joined"

(***************************************************************************)
(* Claims about setup.                                                     *)
(***************************************************************************)
\* C22: setup called while a keystore record exists fails with
\* AlreadyInitialized and leaves the record and the session as they were;
\* setup called when none exists stores a record of wrapped forms and
\* leaves the session holding the material that record opens to under the
\* password given.
C22_SetupOneTime ==
    [][ request'.op = "setup" =>
          IF store.keystore # None
          THEN /\ ~response'.success
               /\ response'.detail = "AlreadyInitialized"
               /\ store' = store
               /\ vault_session' = vault_session
               /\ _crypto' = _crypto
          ELSE /\ response'.success
               /\ store'.keystore # None
               /\ store'.keystore = response'.body
               /\ store'.creds = store.creds
               /\ WrappedForms(store'.keystore)
               /\ is_active(vault_session')
               /\ Unlocked(store', request'.master_password).self = vault_session'
      ]_vars

\* A second setup refused after the first had created the record and
\* unlocked the session.
C22_Witness ==
    /\ request.op = "setup"
    /\ request.prev = "setup"
    /\ ~response.success
    /\ response.detail = "AlreadyInitialized"
    /\ store.keystore # None
    /\ is_active(vault_session)

(***************************************************************************)
(* Claims about the order of the steps of migrate().                       *)
(***************************************************************************)
\* The credential id has been through the loop body of the running run.
Processed(id) == \E j \in 1 .. (mig.i - 1) : j <= Len(mig.credentials) /\ mig.credentials[j] = id

\* Every legacy field of the store the run started from has been decrypted
\* by the run, successfully.
AllDecrypted ==
    \A id \in DOMAIN mig.pre.creds : \A f \in Fields :
        Truthy(mig.pre.creds[id][f])
            => /\ Processed(id)
               /\ decrypt_value(mig.old_cipher, mig.pre.creds[id][f]).ok

\* The run holds a new key, or a credential of its session carries a
\* re-encrypted field.
GeneratedOrReencrypted ==
    \/ mig.priv_key # None
    \/ mig.dek # None
    \/ \E id \in DOMAIN mig.session : mig.session[id] # mig.pre.creds[id]

\* C23: while a run is under way, it holds a new keypair or DEK, or a
\* re-encrypted field, only if every legacy field of every credential has
\* already been decrypted successfully.
C23_DecryptAllFirst ==
    (mig.pc \notin {"idle", "done"} /\ GeneratedOrReencrypted) => AllDecrypted

(***************************************************************************)
(* Claims about the key material a session holds between calls.            *)
(***************************************************************************)
\* C24: after every session operation, returned or raised, the VaultSession
\* holds no key material at all, or all of private key, public key and DEK.
C24_AllOrNothing ==
    \/ /\ vault_session.private_key = None
       /\ vault_session.public_key = None
       /\ vault_session.dek = None
    \/ /\ vault_session.private_key # None
       /\ vault_session.public_key # None
       /\ vault_session.dek # None

(***************************************************************************)
(* Claims about retrying migrate().                                        *)
(***************************************************************************)
\* C25: a run that rolled back because a legacy field did not decrypt
\* leaves the store without a keystore row; the run after it is not refused
\* as already migrated, and when every legacy field decrypts under the
\* password it is given (and the database accepts the commit) it commits
\* the complete migration.
C25_AbortRetryable ==
    /\ (mig.pc = "done" /\ mig.result = "rolled_back")
         => (store.keystore = None /\ store = mig.pre)
    /\ mig.after_abort
         => /\ mig.pre.keystore = None
            /\ mig.result # "already_migrated"
    /\ (mig.after_abort /\ ReturnedRun
          /\ AllDecrypt(mig.pre.creds, mig.master_password)
          /\ mig.result # "commit_error")
         => (mig.result = "committed" /\ MigratedFrom(mig.pre, store, mig.master_password))

\* The run after a rolled-back run has committed a store with populated
\* fields.
C25_Witness ==
    /\ mig.after_abort
    /\ mig.pc = "done"
    /\ mig.result = "committed"
    /\ store.keystore # None
    /\ \E id \in DOMAIN mig.pre.creds : Truthy(mig.pre.creds[id]["password"])

(***************************************************************************)
(* Claims about the key of the stored fields.                              *)
(***************************************************************************)
\* The populated encrypted fields of the store.
StoredFields(db) ==
    { db.creds[id][f] : id \in DOMAIN db.creds, f \in Fields } \ {None, Str("")}

\* All populated fields of db are under the key of one password, and the
\* session c, if unlocked, holds that key.
OneKey(db, c) ==
    \E pw \in Passwords :
        /\ \A v \in StoredFields(db) : VaultCrypto_decrypt(get_crypto(pw), v).ok
        /\ c \in {None, get_crypto(pw)}

\* C26: unlock, lock, create_credential and update_credential, called on a
\* store whose populated fields are all under one key with the session
\* locked or holding that key, leave it so: whenever the vault is unlocked
\* every stored field decrypts under the key the session holds, and no two
\* stored fields are under different keys.
C26_SingleDataKey ==
    [][ (/\ OneKey(store, _crypto)
         /\ request'.op \in {"unlock", "lock", "create_credential", "update_credential"})
        => OneKey(store', _crypto') ]_vars

(***************************************************************************)
(* Claims about a failed unlock.                                           *)
(***************************************************************************)
\* C27: an unlock that fails leaves the session as it found it: unlock_vault
\* leaves _crypto, load_keys leaves the private key, the public key and the
\* DEK of the VaultSession, so a locked session stays without key material
\* and an unlocked one keeps the material it held.
C27_FailedUnlockChangesNothing ==
    [][ /\ (request'.op = "unlock" /\ ~response'.success) => _crypto' = _crypto
        /\ (request'.op = "load_keys" /\ ~response'.success)
             => vault_session' = vault_session ]_vars

Scrubbed(db) ==
    [db EXCEPT !.creds = [id \in DOMAIN db.creds |->
                            [f \in Fields |->
                               IF f \in Secret /\ db.creds[id][f] # None
                               THEN Str("opaque") ELSE db.creds[id][f]]]]

\* The texts stored in the secret fields of a row, under whichever key.
SecretTexts(row) ==
    { VaultCrypto_decrypt(get_crypto(pw), row[f]).v :
        <<pw, f>> \in { pf \in Passwords \X Secret :
                          /\ Truthy(row[pf[2]])
                          /\ VaultCrypto_decrypt(get_crypto(pf[1]), row[pf[2]]).ok } }

\* C29: get_platform without show_secrets answers what it would answer were
\* the stored password, pin and extra unreadable (it decrypts none of them,
\* and calls the cipher only for a username or notes), and shows for each of
\* them the fixed mask when the field is stored and None when it is not; a
\* response of create_credential or update_credential holds, for password,
\* pin and extra, the mask or None, and in no field a secret text of the
\* request or of the stored row.
C29_SecretMasking ==
    [][ /\ (request'.op = "get_platform" /\ ~request'.show_secrets /\ ~request'.locked)
          => /\ response' = get_platform(Scrubbed(store), _crypto,
                                         request'.platform_id, FALSE).response
             /\ effects'.cipher
                  => \E id \in DOMAIN store.creds : \E f \in Fields \ Secret :
                        store.creds[id][f] # None
             /\ response'.status = 200
                  => \A id \in DOMAIN response'.body.credentials : \A f \in Secret :
                        response'.body.credentials[id][f] =
                            IF store.creds[id][f] # None THEN Mask(f) ELSE None
        /\ (/\ request'.op \in {"create_credential", "update_credential"}
            /\ response'.status = 200)
          => LET shown == response'.body.credential
                 data == request'.data.fields
                 row == store'.creds[request'.id]
             IN /\ \A f \in Secret : shown[f] \in {None, Mask(f)}
                /\ \A f \in Secret : shown[f] = Mask(f) <=> row[f] # None
                /\ \A f \in Secret, g \in Fields :
                      Truthy(data[f]) => shown[g] # data[f]
                /\ \A g \in Fields : shown[g] \notin SecretTexts(row) ]_vars

\* get_platform without show_secrets, right after an update_credential,
\* answered 200 with the mask for a stored password that the key of the
\* session does not decrypt, and None for a pin that is not stored.
C29_Witness ==
    /\ request.op = "get_platform" /\ ~request.show_secrets
    /\ request.prev = "update_credential"
    /\ response.status = 200
    /\ 1 \in DOMAIN response.body.credentials
    /\ response.body.credentials[1]["password"] = Mask("password")
    /\ response.body.credentials[1]["pin"] = None
    /\ ~VaultCrypto_decrypt(_crypto, store.creds[1]["password"]).ok

=============================================================================
